---------------------------- MODULE Spec2Model ----------------------------
(***************************************************************************)
(* AutoWeave workbench (script.js): the temporal aggregation engine behind *)
(* the three stacked-bar charts.  A merged CSV is parsed into header-keyed *)
(* rows, accumulated per raw date and project, filtered by the range       *)
(* control, regrouped by day / week / month / year, optionally turned into *)
(* running totals, and handed to the charts sorted by bucket key.          *)
(*                                                                         *)
(* Strings are TLA+ strings; a character is a string of length one.        *)
(* A JavaScript number is an exact fraction <<n, d>> in lowest terms with  *)
(* d > 0; the non-finite values are <<1, 0>> (Infinity), <<-1, 0>>         *)
(* (-Infinity) and <<0, 0>> (NaN).  A Date is the instant it holds, in     *)
(* hours since 1970-01-01T00:00Z; an absent Date (null) is <<>>, a present *)
(* one <<t>>.  The browser's timezone is the variable tz, the offset of    *)
(* local time from UTC in hours.                                           *)
(***************************************************************************)
EXTENDS Integers, Sequences, FiniteSets, TLC

VARIABLES
    tz,        \* browser timezone: local time = UTC + tz hours
    csvText,   \* download_csv of the merge response being processed
    state,     \* createChartController: state {range, group, cumulative, customFrom, customTo}
    data,      \* createChartController: data {dates, topProjects, legendMore, ...}
    stats,     \* quick statistics computed by buildStatsAndChartsFromCsv
    inflight,  \* runMerge is awaiting the merge response
    raf,       \* requestRender: an animation-frame callback is scheduled
    view,      \* the series computed by the latest render() for its deferred draw
    frames,    \* the number of animation-frame callbacks the browser holds for render
    requested, \* history: requestRender calls since render() last ran (0, 1, 2 = several)
    timers,    \* the deferred draws (setTimeout 60 ms) not yet run, oldest first
    faded,     \* fadeBlocks: the chart blocks are shown at opacity 0.25
    canvas,    \* per chart: what its canvas, legend and hover data hold
    layout,    \* the CSS size of the three canvases and the device pixel ratio
    surface,   \* per chart: canvas.width and canvas.height in pixels
    exported,  \* the geometry of the image exportPng produced last
    table,     \* the header and rows parseCsv returned last
    boot,      \* the document and how far the workbench script block has run on it
    merges     \* the runMerge calls awaiting their response, and whose response is shown

vars ==
    <<tz, csvText, state, data, stats, inflight, raf, view, frames, requested, timers,
      faded, canvas, layout, surface, exported, table, boot, merges>>

-----------------------------------------------------------------------------
(* Strings *)

\* the elements of an array
Range(seq) == {seq[i] : i \in 1..Len(seq)}

Char(s, i) == SubSeq(s, i, i)

\* String.prototype.trim over the whitespace the inputs use
IsSpace(c) == c \in {" ", "\t", "\r", "\n"}

RECURSIVE TrimLeft(_)
TrimLeft(s) ==
    IF Len(s) > 0 /\ IsSpace(Char(s, 1)) THEN TrimLeft(SubSeq(s, 2, Len(s))) ELSE s

RECURSIVE TrimRight(_)
TrimRight(s) ==
    IF Len(s) > 0 /\ IsSpace(Char(s, Len(s))) THEN TrimRight(SubSeq(s, 1, Len(s) - 1)) ELSE s

Trim(s) == TrimRight(TrimLeft(s))

\* The collation order of the characters that occur in dates and bucket keys:
\* punctuation before digits before letters.
Collation == "-0123456789ABCDEFGHIJKLMNOPQRSTUVWXYZ"

Rank(c) == CHOOSE i \in 1..Len(Collation) : Char(Collation, i) = c

\* String.prototype.localeCompare: negative, zero or positive
localeCompare(a, b) ==
    LET n    == IF Len(a) < Len(b) THEN Len(a) ELSE Len(b)
        diff == {i \in 1..n : Char(a, i) # Char(b, i)}
    IN  IF diff = {}
        THEN (IF Len(a) < Len(b) THEN -1 ELSE IF Len(a) > Len(b) THEN 1 ELSE 0)
        ELSE LET i == CHOOSE j \in diff : \A k \in diff : j <= k
             IN  IF Rank(Char(a, i)) < Rank(Char(b, i)) THEN -1 ELSE 1

\* sortIsoDates: [...dates].sort((a, b) => String(a).localeCompare(String(b))),
\* applied to the distinct strings of a Set or of a Map's keys
RECURSIVE sortIsoDates(_)
sortIsoDates(dates) ==
    IF dates = {} THEN <<>>
    ELSE LET m == CHOOSE x \in dates : \A y \in dates : localeCompare(x, y) <= 0
         IN  <<m>> \o sortIsoDates(dates \ {m})

IsDigit(c) == c \in {"0", "1", "2", "3", "4", "5", "6", "7", "8", "9"}

DigitVal(c) == Rank(c) - Rank("0")

DigitChar(n) == Char("0123456789", n + 1)

AllDigits(s) == Len(s) > 0 /\ \A i \in 1..Len(s) : IsDigit(Char(s, i))

RECURSIVE DecVal(_)
DecVal(s) ==
    IF Len(s) = 0 THEN 0
    ELSE 10 * DecVal(SubSeq(s, 1, Len(s) - 1)) + DigitVal(Char(s, Len(s)))

\* String(n) for an integer n >= 0
RECURSIVE IntToStr(_)
IntToStr(n) == IF n < 10 THEN DigitChar(n) ELSE IntToStr(n \div 10) \o DigitChar(n % 10)

\* String(n).padStart(2, "0")
Pad2(n) == IF n < 10 THEN "0" \o IntToStr(n) ELSE IntToStr(n)

-----------------------------------------------------------------------------
(* Numbers *)

Abs(n) == IF n < 0 THEN 0 - n ELSE n

Sign(n) == IF n < 0 THEN -1 ELSE IF n > 0 THEN 1 ELSE 0

RECURSIVE Gcd(_, _)
Gcd(a, b) == IF b = 0 THEN a ELSE Gcd(b, a % b)

Num(n, d) ==
    IF d = 0 THEN <<Sign(n), 0>>
    ELSE LET g == Gcd(Abs(n), Abs(d))
         IN  <<(Sign(d) * n) \div g, Abs(d) \div g>>

Zero == <<0, 1>>

NaN == <<0, 0>>

\* Number.isFinite
isFinite(x) == x[2] # 0

\* a + b; Plus evaluates each operand once and adds the two values
PlusOf(a, b) ==
    IF isFinite(a) /\ isFinite(b) THEN Num(a[1] * b[2] + b[1] * a[2], a[2] * b[2])
    ELSE IF a = NaN \/ b = NaN THEN NaN
    ELSE IF isFinite(a) THEN b
    ELSE IF isFinite(b) THEN a
    ELSE IF a = b THEN a ELSE NaN

Plus(a, b) == CHOOSE r \in {PlusOf(p[1], p[2]) : p \in {<<a, b>>}} : TRUE

\* a / b
OverOf(a, b) ==
    IF a = NaN \/ b = NaN THEN NaN
    ELSE IF isFinite(a) /\ isFinite(b) THEN Num(a[1] * b[2], a[2] * b[1])
    ELSE IF isFinite(b) THEN <<a[1] * (IF b[1] < 0 THEN -1 ELSE 1), 0>>
    ELSE IF isFinite(a) THEN Zero
    ELSE NaN

Over(a, b) == CHOOSE r \in {OverOf(p[1], p[2]) : p \in {<<a, b>>}} : TRUE

\* a < b for finite a, b
LessOf(a, b) == a[1] * b[2] < b[1] * a[2]

Less(a, b) == CHOOSE r \in {LessOf(p[1], p[2]) : p \in {<<a, b>>}} : TRUE

\* x || 0 for a number or undefined (<<>>): NaN, 0 and undefined give 0
OrZero(x) == IF x = <<>> \/ x = NaN \/ x = Zero THEN Zero ELSE x

\* Map.prototype.get
Get(m, k) == IF k \in DOMAIN m THEN m[k] ELSE <<>>

RECURSIVE Pow10(_)
Pow10(k) == IF k = 0 THEN 1 ELSE 10 * Pow10(k - 1)

\* The radix a prefixed integer literal names (0x, 0o, 0b), or 0 for none
BaseOf(s) ==
    IF Len(s) < 2 \/ Char(s, 1) # "0" THEN 0
    ELSE IF Char(s, 2) \in {"x", "X"} THEN 16
    ELSE IF Char(s, 2) \in {"o", "O"} THEN 8
    ELSE IF Char(s, 2) \in {"b", "B"} THEN 2
    ELSE 0

BaseDigits == "0123456789abcdef"

UpperDigits == "0123456789ABCDEF"

DigitIn(c, base) == \E k \in 1..base : c = Char(BaseDigits, k) \/ c = Char(UpperDigits, k)

BaseDigitVal(c) ==
    (CHOOSE k \in 1..Len(BaseDigits) : c = Char(BaseDigits, k) \/ c = Char(UpperDigits, k)) - 1

RECURSIVE BaseVal(_, _)
BaseVal(s, base) ==
    IF Len(s) = 0 THEN 0
    ELSE base * BaseVal(SubSeq(s, 1, Len(s) - 1), base) + BaseDigitVal(Char(s, Len(s)))

\* the digits after a radix prefix
PrefixedInt(digits, base) ==
    IF Len(digits) > 0 /\ \A i \in 1..Len(digits) : DigitIn(Char(digits, i), base)
    THEN Num(BaseVal(digits, base), 1)
    ELSE NaN

IndicesOf(s, cs) == {i \in 1..Len(s) : Char(s, i) \in cs}

Before(s, p) == SubSeq(s, 1, p - 1)

After(s, p) == SubSeq(s, p + 1, Len(s))

\* digits "." digits, with at least one digit on either side
Fraction(ip, fp) ==
    IF /\ Len(ip) + Len(fp) > 0
       /\ (Len(ip) = 0 \/ AllDigits(ip))
       /\ (Len(fp) = 0 \/ AllDigits(fp))
    THEN Num(DecVal(ip) * Pow10(Len(fp)) + DecVal(fp), Pow10(Len(fp)))
    ELSE NaN

MantissaAt(m, dots) ==
    IF dots = {} THEN (IF AllDigits(m) THEN Num(DecVal(m), 1) ELSE NaN)
    ELSE IF Cardinality(dots) = 1
    THEN Fraction(Before(m, CHOOSE p \in dots : TRUE), After(m, CHOOSE p \in dots : TRUE))
    ELSE NaN

Mantissa(m) == MantissaAt(m, IndicesOf(m, {"."}))

\* the digits of an exponent part, without its sign
ExpDigits(x) == IF Len(x) > 0 /\ Char(x, 1) \in {"+", "-"} THEN SubSeq(x, 2, Len(x)) ELSE x

ExpSign(x) == IF Len(x) > 0 /\ Char(x, 1) = "-" THEN -1 ELSE 1

\* x * 10^e, exactly
Scale(x, e) ==
    IF x = NaN THEN NaN
    ELSE IF e >= 0 THEN Num(x[1] * Pow10(e), x[2])
    ELSE Num(x[1], x[2] * Pow10(-e))

WithExponent(m, x) ==
    IF AllDigits(ExpDigits(x)) THEN Scale(Mantissa(m), ExpSign(x) * DecVal(ExpDigits(x))) ELSE NaN

UnsignedAt(body, es) ==
    IF es = {} THEN Mantissa(body)
    ELSE IF Cardinality(es) = 1
    THEN WithExponent(Before(body, CHOOSE p \in es : TRUE), After(body, CHOOSE p \in es : TRUE))
    ELSE NaN

\* StrUnsignedDecimalLiteral: Infinity, or digits with an optional fraction
\* and an optional exponent
Unsigned(body) ==
    IF body = "Infinity" THEN <<1, 0>> ELSE UnsignedAt(body, IndicesOf(body, {"e", "E"}))

Negate(x) == <<0 - x[1], x[2]>>

\* Number(s) for a trimmed, non-empty s (StringNumericLiteral): a radix-prefixed
\* integer, or an optionally signed decimal; any other text is NaN.  Values are
\* exact, so an exponent beyond the range of a double is not rounded to
\* Infinity or 0.
Number(s) ==
    IF BaseOf(s) # 0 THEN PrefixedInt(SubSeq(s, 3, Len(s)), BaseOf(s))
    ELSE IF Char(s, 1) = "-" THEN Negate(Unsigned(SubSeq(s, 2, Len(s))))
    ELSE IF Char(s, 1) = "+" THEN Unsigned(SubSeq(s, 2, Len(s)))
    ELSE Unsigned(s)

\* toNumber without the Number.isFinite guard
toNumber_unguarded(x) ==
    IF x = <<>> THEN Zero
    ELSE IF Trim(x[1]) = "" THEN Zero
    ELSE Number(Trim(x[1]))

\* toNumber(x) for a field x: <<>> when the row has no such column
\* (undefined), <<s>> otherwise.  Missing, empty and non-finite become 0.
toNumber(x) ==
    IF x = <<>> THEN Zero
    ELSE LET s == Trim(x[1])
         IN  IF s = "" THEN Zero
             ELSE LET n == Number(s) IN IF isFinite(n) THEN n ELSE Zero

\* safeDiv without its guards: the bare quotient
safeDiv_unguarded(a, b) == Over(a, b)

safeDiv(a, b) ==
    IF ~isFinite(a) \/ ~isFinite(b) \/ b = Zero THEN Zero ELSE Over(a, b)

-----------------------------------------------------------------------------
(* Dates *)

\* the year counted from 1 March
ShiftedYear(y, m) == IF m <= 2 THEN y - 1 ELSE y

\* the day of the year counted from 1 March
DayOfShiftedYear(m, d) == (153 * (IF m > 2 THEN m - 3 ELSE m + 9) + 2) \div 5 + d - 1

DaysFromShifted(yy, doy) ==
    365 * yy + yy \div 4 - yy \div 100 + yy \div 400 + doy - 719468

\* Date.UTC(y, m - 1, d) in days since 1970-01-01 (proleptic Gregorian)
DaysFromCivil(y, m, d) == DaysFromShifted(ShiftedYear(y, m), DayOfShiftedYear(m, d))

CivilOfMonth(y0, doy, mp) ==
    [y |-> y0 + (IF mp < 10 THEN 0 ELSE 1),
     m |-> IF mp < 10 THEN mp + 3 ELSE mp - 9,
     d |-> doy - (153 * mp + 2) \div 5 + 1]

CivilOfDay(y0, doy) == CivilOfMonth(y0, doy, (5 * doy + 2) \div 153)

CivilOfYear(era, doe, yoe) ==
    CivilOfDay(yoe + era * 400, doe - (365 * yoe + yoe \div 4 - yoe \div 100))

CivilOfEra(era, doe) ==
    CivilOfYear(era, doe, (doe - doe \div 1460 + doe \div 36524 - doe \div 146096) \div 365)

\* the calendar date [y, m, d] of a day number
CivilFromDays(z) == CivilOfEra((z + 719468) \div 146097, (z + 719468) % 146097)

\* getUTCDay of a day number: 0 = Sunday .. 6 = Saturday
WeekDay(z) == (z + 4) % 7

\* the local calendar day (number) a Date falls on: getFullYear / getMonth /
\* getDate read the date in local time
LocalDay(t) == (t + tz) \div 24

\* new Date(y, m, d).getTime(): local midnight of a local calendar day
LocalMidnight(day) == day * 24 - tz

\* a month 1..12 and a day of that month
IsCivil(y, m, d) ==
    /\ m \in 1..12
    /\ d >= 1
    /\ DaysFromCivil(y, m, d) < DaysFromCivil(IF m = 12 THEN y + 1 ELSE y,
                                              IF m = 12 THEN 1 ELSE m + 1, 1)

IsIsoDate(s) ==
    /\ Len(s) = 10
    /\ Char(s, 5) = "-" /\ Char(s, 8) = "-"
    /\ \A i \in {1, 2, 3, 4, 6, 7, 9, 10} : IsDigit(Char(s, i))
    /\ IsCivil(DecVal(SubSeq(s, 1, 4)), DecVal(SubSeq(s, 6, 7)), DecVal(SubSeq(s, 9, 10)))

\* the calendar day (number) written in a date string "YYYY-MM-DD"
CalDay(s) ==
    DaysFromCivil(DecVal(SubSeq(s, 1, 4)), DecVal(SubSeq(s, 6, 7)), DecVal(SubSeq(s, 9, 10)))

\* new Date(s) for the date strings of the merged CSV and of <input type=date>:
\* a date-only ISO string "YYYY-MM-DD" is midnight UTC of that day; other
\* text is an Invalid Date
NewDate(s) == IF IsIsoDate(s) THEN <<24 * CalDay(s)>> ELSE <<>>

toDateObj(str) == IF Trim(str) = "" THEN <<>> ELSE NewDate(Trim(str))

\* d.setUTCDate(d.getUTCDate() + 4 - dayNum): the Thursday of the ISO week of a day
ThursdayOf(d0) == d0 + 4 - (IF WeekDay(d0) = 0 THEN 7 ELSE WeekDay(d0))

\* the key of the week whose Thursday is day d of year y
WeekKey(d, y) ==
    IntToStr(y) \o "-W" \o Pad2(((d - DaysFromCivil(y, 1, 1)) + 1 + 6) \div 7)

WeekKeyOfThursday(d) == WeekKey(d, CivilFromDays(d).y)

\* isoWeekKey(date): ISO week year + week number of the local calendar day
isoWeekKey(t) == WeekKeyOfThursday(ThursdayOf(LocalDay(t)))

\* `${y}-${m}-${dd}` of a local calendar date
DayKey(c) == IntToStr(c.y) \o "-" \o Pad2(c.m) \o "-" \o Pad2(c.d)

KeyOfCivil(c, t, mode) ==
    IF mode = "day" THEN DayKey(c)
    ELSE IF mode = "month" THEN IntToStr(c.y) \o "-" \o Pad2(c.m)
    ELSE IF mode = "year" THEN IntToStr(c.y)
    ELSE IF mode = "week" THEN isoWeekKey(t)
    ELSE DayKey(c)

formatGroupKey(t, mode) == KeyOfCivil(CivilFromDays(LocalDay(t)), t, mode)

dateToISO(t) == DayKey(CivilFromDays(LocalDay(t)))

MinMaxOf(parsed) ==
    IF parsed = {} THEN [min |-> <<>>, max |-> <<>>]
    ELSE [min |-> <<CHOOSE a \in parsed : \A b \in parsed : a <= b>>,
          max |-> <<CHOOSE a \in parsed : \A b \in parsed : a >= b>>]

\* getMinMaxDates(isoDates): the earliest and latest parseable date, or null
getMinMaxDates(isoDates) ==
    MinMaxOf({toDateObj(d)[1] : d \in {x \in isoDates : toDateObj(x) # <<>>}})

-----------------------------------------------------------------------------
(* CSV parsing *)

\* Map.prototype.set
Put(m, k, v) == (k :> v) @@ m

EmptyMap == [k \in {} |-> Zero]

\* parseCsvLine: the loop over the characters of one line, from index i with
\* the fields pushed so far (out), the current field (cur) and inQuotes
RECURSIVE parseCsvLineFrom(_, _, _, _, _)
parseCsvLineFrom(line, i, out, cur, inQuotes) ==
    IF i > Len(line) THEN Append(out, cur)
    ELSE LET ch == Char(line, i)
         IN  IF ch = "\""
             THEN IF inQuotes /\ i + 1 <= Len(line) /\ Char(line, i + 1) = "\""
                  THEN parseCsvLineFrom(line, i + 2, out, cur \o "\"", inQuotes)
                  ELSE parseCsvLineFrom(line, i + 1, out, cur, ~inQuotes)
             ELSE IF ch = "," /\ ~inQuotes
                  THEN parseCsvLineFrom(line, i + 1, Append(out, cur), "", inQuotes)
                  ELSE parseCsvLineFrom(line, i + 1, out, cur \o ch, inQuotes)

parseCsvLine(line) == parseCsvLineFrom(line, 1, <<>>, "", FALSE)

\* text.split(/\r?\n/)
RECURSIVE SplitLines(_)
SplitLines(text) ==
    LET nl == {i \in 1..Len(text) : Char(text, i) = "\n"}
    IN  IF nl = {} THEN <<text>>
        ELSE LET i    == CHOOSE j \in nl : \A k \in nl : j <= k
                 stop == IF i > 1 /\ Char(text, i - 1) = "\r" THEN i - 2 ELSE i - 1
             IN  <<SubSeq(text, 1, stop)>> \o SplitLines(SubSeq(text, i + 1, Len(text)))

\* the row object built from one line: row[header[j]] = (cols[j] ?? "").trim(),
\* a repeated header name keeping the value of its last column
RowOf(header, cols) ==
    [h \in {header[j] : j \in 1..Len(header)} |->
        LET j == CHOOSE a \in 1..Len(header) :
                     header[a] = h /\ \A b \in 1..Len(header) : header[b] = h => b <= a
        IN  IF j <= Len(cols) THEN Trim(cols[j]) ELSE ""]

parseCsv(text) ==
    LET lines == SelectSeq(SplitLines(text), LAMBDA l : Len(Trim(l)) > 0)
    IN  IF Len(lines) = 0 THEN [header |-> <<>>, rows |-> <<>>]
        ELSE LET parsed == parseCsvLine(lines[1])
                 header == [j \in 1..Len(parsed) |-> Trim(parsed[j])]
             IN  [header |-> header,
                  rows   |-> [i \in 1..(Len(lines) - 1) |->
                                 RowOf(header, parseCsvLine(lines[i + 1]))]]

\* r.<name>: <<>> when the row has no such property (undefined)
Field(r, name) == IF name \in DOMAIN r THEN <<r[name]>> ELSE <<>>

\* x || dflt for a string field: undefined and "" give dflt
OrStr(x, dflt) == IF x = <<>> THEN dflt ELSE IF x[1] = "" THEN dflt ELSE x[1]

\* chooseIncomeAccessor(rows).label
chooseIncomeAccessor(rows) ==
    LET anyGbp == \E i \in 1..Len(rows) : Trim(OrStr(Field(rows[i], "amount_gbp"), "")) # ""
    IN  IF anyGbp THEN "amount_gbp" ELSE "amount"

\* an accessor that falls back to r.amount for a row whose amount_gbp is blank
incomeOf_perRow(label, r) ==
    toNumber(IF Trim(OrStr(Field(r, "amount_gbp"), "")) # "" THEN Field(r, "amount_gbp")
             ELSE Field(r, "amount"))

\* chooseIncomeAccessor(rows).get(r)
incomeOf(label, r) == toNumber(Field(r, label))

-----------------------------------------------------------------------------
(* buildStatsAndChartsFromCsv *)

maxProjects == 6

\* m.get(date).set(project, (m.get(date).get(project) || 0) + v), creating
\* the per-date map first when the date is new
perDate(m, date) == IF date \in DOMAIN m THEN m[date] ELSE EmptyMap

AddTo(m, date, project, v) ==
    Put(m, date, Put(perDate(m, date), project,
                     Plus(OrZero(Get(perDate(m, date), project)), v)))

\* (r.project_name || "(unknown)").trim() || "(unknown)"
projectOf(r) ==
    IF Trim(OrStr(Field(r, "project_name"), "(unknown)")) = "" THEN "(unknown)"
    ELSE Trim(OrStr(Field(r, "project_name"), "(unknown)"))

\* projMap.get(project) || { income: 0, duration: 0 }
prevOf(projMap, project) ==
    IF project \in DOMAIN projMap THEN projMap[project] ELSE [income |-> Zero, duration |-> Zero]

\* one pass of the loop body over a row with the given project, date,
\* duration and income
accumulateRow(acc, project, date, duration, income) ==
    [dateSet       |-> IF date # "" THEN acc.dateSet \cup {date} ELSE acc.dateSet,
     totalDuration |-> Plus(acc.totalDuration, duration),
     totalIncome   |-> Plus(acc.totalIncome, income),
     projOrder     |-> IF project \in DOMAIN acc.projMap THEN acc.projOrder
                       ELSE Append(acc.projOrder, project),
     projMap       |-> Put(acc.projMap, project,
                           [income   |-> Plus(prevOf(acc.projMap, project).income, income),
                            duration |-> Plus(prevOf(acc.projMap, project).duration, duration)]),
     incomeByDateProject   |-> AddTo(acc.incomeByDateProject, date, project, income),
     durationByDateProject |-> AddTo(acc.durationByDateProject, date, project, duration)]

\* the loop over the rows, from row i with the accumulators acc
RECURSIVE accumulateRows(_, _, _, _)
accumulateRows(rows, label, i, acc) ==
    IF i > Len(rows) THEN acc
    ELSE accumulateRows(rows, label, i + 1,
             accumulateRow(acc, projectOf(rows[i]), Trim(OrStr(Field(rows[i], "date"), "")),
                           toNumber(Field(rows[i], "duration_hours")), incomeOf(label, rows[i])))

\* where x goes in the sorted rest: before the first element whose income is smaller
insertPos(rest, x) ==
    IF \E j \in 1..Len(rest) : Less(rest[j].income, x.income)
    THEN (CHOOSE j \in 1..Len(rest) :
             /\ Less(rest[j].income, x.income)
             /\ \A i \in 1..(j - 1) : ~Less(rest[i].income, x.income)) - 1
    ELSE Len(rest)

insertAt(rest, x, pos) == SubSeq(rest, 1, pos) \o <<x>> \o SubSeq(rest, pos + 1, Len(rest))

insertSorted(rest, x) == insertAt(rest, x, insertPos(rest, x))

\* the array left in the order of first appearance
sortByIncomeDesc_unsorted(arr) == arr

\* [...projArr].sort((a, b) => b.income - a.income): a stable sort, larger
\* income first
RECURSIVE sortByIncomeDesc(_)
sortByIncomeDesc(arr) ==
    IF Len(arr) <= 1 THEN arr
    ELSE insertSorted(sortByIncomeDesc(SubSeq(arr, 1, Len(arr) - 1)), arr[Len(arr)])

projEntry(name, v) ==
    [name |-> name, income |-> v.income, duration |-> v.duration,
     ratio |-> safeDiv(v.income, v.duration)]

\* projArr: one entry per project, in the order the projects first appear
projArrOf(acc) ==
    [j \in 1..Len(acc.projOrder) |-> projEntry(acc.projOrder[j], acc.projMap[acc.projOrder[j]])]

\* incomeByProject.slice(0, maxProjects).map((x) => x.name)
topNames(incomeByProject) ==
    [j \in 1..(IF Len(incomeByProject) < maxProjects THEN Len(incomeByProject)
               ELSE maxProjects) |-> incomeByProject[j].name]

buildResult(rowCount, label, acc, projArr, topProjects, minMax) ==
    [stats |-> [rowCount |-> rowCount, incomeLabel |-> label,
                totalDuration |-> acc.totalDuration, totalIncome |-> acc.totalIncome,
                overallRatio |-> safeDiv(acc.totalIncome, acc.totalDuration),
                projArr |-> projArr],
     next  |-> [dates |-> sortIsoDates(acc.dateSet), topProjects |-> topProjects,
                legendMore |-> IF Len(projArr) - Len(topProjects) > 0
                               THEN Len(projArr) - Len(topProjects) ELSE 0,
                incomeByDateProject |-> acc.incomeByDateProject,
                durationByDateProject |-> acc.durationByDateProject,
                minDate |-> minMax.min, maxDate |-> minMax.max]]

buildFromProjects(rowCount, label, acc, projArr) ==
    buildResult(rowCount, label, acc, projArr, topNames(sortByIncomeDesc(projArr)),
                getMinMaxDates(acc.dateSet))

buildFromTotals(rowCount, label, acc) ==
    buildFromProjects(rowCount, label, acc, projArrOf(acc))

\* the accumulators before the first row
noRows ==
    [dateSet |-> {}, totalDuration |-> Zero, totalIncome |-> Zero,
     projOrder |-> <<>>, projMap |-> [k \in {} |-> Zero],
     incomeByDateProject |-> [k \in {} |-> Zero],
     durationByDateProject |-> [k \in {} |-> Zero]]

buildFromRows(rows, label) ==
    buildFromTotals(Len(rows), label, accumulateRows(rows, label, 1, noRows))

buildFromCsv(rows) == buildFromRows(rows, chooseIncomeAccessor(rows))

\* the values buildStatsAndChartsFromCsv computes from the CSV text: the quick
\* statistics and the argument it passes to chartController.setData
buildStatsAndChartsFromCsv(text) == buildFromCsv(parseCsv(text).rows)

\* setData(next): the new state of the controller's state object (the custom
\* bounds default to the dataset's first and last date when they are empty)
setDataState(st, next) ==
    IF next.minDate # <<>> /\ next.maxDate # <<>>
    THEN [st EXCEPT !.customFrom = IF st.customFrom = "" THEN dateToISO(next.minDate[1])
                                   ELSE st.customFrom,
                    !.customTo   = IF st.customTo = "" THEN dateToISO(next.maxDate[1])
                                   ELSE st.customTo]
    ELSE st

-----------------------------------------------------------------------------
(* createChartController: computeFilteredDates .. render *)

\* the local-midnight timestamp of the calendar day of a Date:
\* new Date(d.getFullYear(), d.getMonth(), d.getDate()).getTime()
dayStamp(t) == LocalMidnight(LocalDay(t))

\* the bounds taken in the order given: from as the lower, to as the upper
\* the filter callback of the custom branch: dt parsed and lo <= t <= hi
inDayRange(dt, lo, hi) ==
    dt # <<>> /\ dayStamp(dt[1]) >= lo /\ dayStamp(dt[1]) <= hi

keptBetween(all, lo, hi) == SelectSeq(all, LAMBDA d : inDayRange(toDateObj(d), lo, hi))

\* the bounds taken in the order given: from as the lower, to as the upper
customDates_noSwap(all, fromD, toD) == keptBetween(all, dayStamp(fromD), dayStamp(toD))

\* Math.min(fromT, toT) .. Math.max(fromT, toT)
customBetween(all, fromT, toT) ==
    keptBetween(all, IF fromT < toT THEN fromT ELSE toT, IF fromT > toT THEN fromT ELSE toT)

\* the custom branch of computeFilteredDates: both bounds parsed, the dates
\* between the earlier and the later bound, both included
customDates(all, fromD, toD) == customBetween(all, dayStamp(fromD), dayStamp(toD))

\* an unparseable bound filtering every date out
customFallback_empty(all) == <<>>

\* the custom branch when a bound does not parse: return [...all]
customFallback(all) == all

\* the filter callback of the last-N branch: dt parsed and t >= cutoffT
onOrAfter(dt, cutoffT) == dt # <<>> /\ dayStamp(dt[1]) >= cutoffT

keptFrom(all, cutoffT) == SelectSeq(all, LAMBDA d : onOrAfter(toDateObj(d), cutoffT))

\* the cutoff one day early: days instead of days - 1
lastDates_offByOne(all, anchor, days) == keptFrom(all, dayStamp(anchor - 24 * days))

\* the last-N-days branch of computeFilteredDates: the dates on or after the
\* day (days - 1) days before the anchor
lastDates(all, anchor, days) == keptFrom(all, dayStamp(anchor - 24 * (days - 1)))

\* getMinMaxDates(all).max || new Date(); without a parseable date the anchor
\* is the current time, and every date is dropped by lastDates whatever it is
anchorFrom(max) == IF max # <<>> THEN max[1] ELSE 0

anchorOf(all) == anchorFrom(getMinMaxDates(Range(all)).max)

\* Number(state.range) || 14
rangeDays ==
    IF AllDigits(state.range) /\ DecVal(state.range) # 0 THEN DecVal(state.range) ELSE 14

customRange(all, fromD, toD) ==
    IF fromD = <<>> \/ toD = <<>> THEN customFallback(all)
    ELSE customDates(all, fromD[1], toD[1])

computeFilteredDates ==
    IF Len(data.dates) = 0 THEN <<>>
    ELSE IF state.range = "all" THEN data.dates
    ELSE IF state.range = "custom"
    THEN customRange(data.dates, toDateObj(state.customFrom), toDateObj(state.customTo))
    ELSE lastDates(data.dates, anchorOf(data.dates), rangeDays)

\* dest.set(p, (dest.get(p) || 0) + v) for every project of the raw date
mergeInto(dest, perProj) ==
    [p \in DOMAIN dest \cup DOMAIN perProj |->
        IF p \in DOMAIN perProj THEN Plus(OrZero(Get(dest, p)), perProj[p]) ELSE dest[p]]

addToBucket(out, key, perProj) ==
    Put(out, key, mergeInto(IF key \in DOMAIN out THEN out[key] ELSE EmptyMap, perProj))

\* the loop body for the raw date d parsed as dt: skipped when dt is null
regroupDate(sourceMap, d, dt, out) ==
    IF dt = <<>> THEN out
    ELSE addToBucket(out, formatGroupKey(dt[1], state.group),
                     IF d \in DOMAIN sourceMap THEN sourceMap[d] ELSE EmptyMap)

\* regroup: the loop over filteredDates, from index i with the map built so far
RECURSIVE regroupFrom(_, _, _, _)
regroupFrom(sourceMap, filteredDates, i, out) ==
    IF i > Len(filteredDates) THEN out
    ELSE CHOOSE result \in
           {regroupFrom(sourceMap, filteredDates, i + 1, next) :
            next \in {regroupDate(sourceMap, filteredDates[i], toDateObj(filteredDates[i]), out)}} : TRUE

regroup(sourceMap, filteredDates) ==
    regroupFrom(sourceMap, filteredDates, 1, [k \in {} |-> EmptyMap])

\* one step of the running totals: running + (perProj.get(p) || 0)
runningStep(running, perProj) ==
    [p \in DOMAIN running |-> Plus(OrZero(running[p]), OrZero(Get(perProj, p)))]

\* the running totals after the sorted keys keys[1..i]
RECURSIVE runningAt(_, _, _, _)
runningAt(groupedMap, keys, projects, i) ==
    IF i = 0 THEN [p \in Range(projects) |-> Zero]
    ELSE runningStep(runningAt(groupedMap, keys, projects, i - 1),
                     IF keys[i] \in DOMAIN groupedMap THEN groupedMap[keys[i]] ELSE EmptyMap)

\* no running total: each bucket keeps its own value
applyCumulative_noCarry(groupedMap, projects) ==
    [k \in DOMAIN groupedMap |->
        [p \in Range(projects) |-> OrZero(Get(groupedMap[k], p))]]

\* the index of key k in the sorted keys
indexOf(keys, k) == CHOOSE i \in 1..Len(keys) : keys[i] = k

cumulativeOver(groupedMap, keys, projects) ==
    [k \in DOMAIN groupedMap |-> runningAt(groupedMap, keys, projects, indexOf(keys, k))]

applyCumulative(groupedMap, projects) ==
    cumulativeOver(groupedMap, sortIsoDates(DOMAIN groupedMap), projects)

ratioOf(im, dm, projects) ==
    [p \in Range(projects) |-> safeDiv(OrZero(Get(im, p)), OrZero(Get(dm, p)))]

\* the per-bucket ratio map built inline by render()
ratioGroupedOf(incomeGrouped, durationGrouped, projects) ==
    [k \in DOMAIN incomeGrouped \cup DOMAIN durationGrouped |->
        ratioOf(IF k \in DOMAIN incomeGrouped THEN incomeGrouped[k] ELSE EmptyMap,
                IF k \in DOMAIN durationGrouped THEN durationGrouped[k] ELSE EmptyMap,
                projects)]

\* the running sum of the per-bucket ratios instead of the ratio of the running sums
applyCumulativeRate_sumOfRatios(incomeGrouped, durationGrouped, projects) ==
    applyCumulative(ratioGroupedOf(incomeGrouped, durationGrouped, projects), projects)

\* safeDiv(runningIncome.get(p) || 0, runningDur.get(p) || 0) for every project
runningRatio(ri, rd) == [p \in DOMAIN ri |-> safeDiv(OrZero(ri[p]), OrZero(rd[p]))]

cumulativeRateOver(incomeGrouped, durationGrouped, keys, projects) ==
    [k \in DOMAIN incomeGrouped |->
        runningRatio(runningAt(incomeGrouped, keys, projects, indexOf(keys, k)),
                     runningAt(durationGrouped, keys, projects, indexOf(keys, k)))]

applyCumulativeRate(incomeGrouped, durationGrouped, projects) ==
    cumulativeRateOver(incomeGrouped, durationGrouped, sortIsoDates(DOMAIN incomeGrouped),
                       projects)

renderFinal(filteredDates, incomeGrouped, durationGrouped, ratioGrouped, incomeFinal, durationFinal, ratioFinal) ==
    [filteredDates   |-> filteredDates,
     incomeGrouped   |-> incomeGrouped,
     durationGrouped |-> durationGrouped,
     ratioGrouped    |-> ratioGrouped,
     incomeFinal     |-> incomeFinal,
     durationFinal   |-> durationFinal,
     ratioFinal      |-> ratioFinal,
     groupedDates    |-> sortIsoDates(DOMAIN incomeFinal),
     topProjects     |-> data.topProjects,
     legendMore      |-> data.legendMore]

renderRatio(filteredDates, incomeGrouped, durationGrouped, ratioGrouped) ==
    renderFinal(filteredDates, incomeGrouped, durationGrouped, ratioGrouped,
                IF state.cumulative THEN applyCumulative(incomeGrouped, data.topProjects)
                ELSE incomeGrouped,
                IF state.cumulative THEN applyCumulative(durationGrouped, data.topProjects)
                ELSE durationGrouped,
                IF state.cumulative
                THEN applyCumulativeRate(incomeGrouped, durationGrouped, data.topProjects)
                ELSE ratioGrouped)

renderGrouped(filteredDates, incomeGrouped, durationGrouped) ==
    renderRatio(filteredDates, incomeGrouped, durationGrouped,
                ratioGroupedOf(incomeGrouped, durationGrouped, data.topProjects))

renderFiltered(filteredDates) ==
    renderGrouped(filteredDates, regroup(data.incomeByDateProject, filteredDates),
                  regroup(data.durationByDateProject, filteredDates))

\* the values render() computes and hands to its deferred draw
renderSeries == renderFiltered(computeFilteredDates)

-----------------------------------------------------------------------------
(* drawStackedBars, clearVisuals, requestRender, exportPng *)

\* the three chart blocks, in the order render() draws and exportPng stacks them
Charts == {"income", "duration", "ratio"}

ChartOrder == <<"income", "duration", "ratio">>

\* (valuesByDateProject.get(d) || new Map()).get(p) || 0
barValue(values, d, p) == IF d \in DOMAIN values THEN OrZero(Get(values[d], p)) ELSE Zero

\* a * b for finite a, b
TimesOf(a, b) == Num(a[1] * b[1], a[2] * b[2])

Times(a, b) == CHOOSE r \in {TimesOf(p[1], p[2]) : p \in {<<a, b>>}} : TRUE

\* a - b
MinusOf(a, b) == Plus(a, <<0 - b[1], b[2]>>)

Minus(a, b) == CHOOSE r \in {MinusOf(p[1], p[2]) : p \in {<<a, b>>}} : TRUE

MaxNumOf(a, b) == IF Less(a, b) THEN b ELSE a

MaxNum(a, b) == CHOOSE r \in {MaxNumOf(p[1], p[2]) : p \in {<<a, b>>}} : TRUE

\* canvas.clientWidth || 800 and canvas.clientHeight || 220
cssWidth(box) == IF box.clientWidth = 0 THEN 800 ELSE box.clientWidth

cssHeight(box) == IF box.clientHeight = 0 THEN 220 ELSE box.clientHeight

padding == [l |-> 10, r |-> 10, t |-> 8, b |-> 34]

\* w and h: the plot area inside the padding
plotWidth(box) == cssWidth(box) - padding.l - padding.r

plotHeight(box) == cssHeight(box) - padding.t - padding.b

\* totals[i]: the sum over the first n projects of seriesOrder
RECURSIVE bucketTotal(_, _, _, _)
bucketTotal(values, d, seriesOrder, n) ==
    IF n = 0 THEN Zero
    ELSE Plus(bucketTotal(values, d, seriesOrder, n - 1), barValue(values, d, seriesOrder[n]))

LargestOf(S) == CHOOSE m \in S : \A x \in S : ~Less(m, x)

\* Math.max(...totals, 0.000001)
maxTotalOf(dates, seriesOrder, values) ==
    LargestOf({bucketTotal(values, dates[i], seriesOrder, Len(seriesOrder)) : i \in 1..Len(dates)}
              \cup {<<1, 1000000>>})

gap == 6

\* barW = Math.max(10, (w - gap * (n - 1)) / n) for n dates
barWidth(n, w) == MaxNum(<<10, 1>>, Num(w - gap * (n - 1), n))

\* x = padding.l + i * (barW + gap) for the i-th date, i from 0
barX(i, barW) == Plus(<<padding.l, 1>>, Times(<<i, 1>>, Plus(barW, <<gap, 1>>)))

\* segments more than MaxRatio plot heights high are not told apart
MaxRatio == 10000

\* ratio * h; beyond MaxRatio plot heights the product, which is far outside
\* any canvas, is represented by Infinity
scaledBy(ratio, h) == IF Less(<<MaxRatio, 1>>, ratio) THEN <<1, 0>> ELSE Times(ratio, <<h, 1>>)

\* segH = (v / maxTotal) * h
segmentHeight(v, g) == scaledBy(Over(v, g.maxTotal), g.h)

\* the rectangle pushed for a segment whose top edge is at y
segmentAt(x, y, g, date, p, v) ==
    [x |-> x, y |-> y, w |-> g.barW, h |-> segmentHeight(v, g),
     date |-> date, project |-> p, value |-> v]

\* the inner loop over seriesOrder from index j with yCursor at y: a project
\* whose value is not positive is skipped; each other one moves yCursor up by
\* its segment height and pushes its rectangle
RECURSIVE stackFrom(_, _, _, _, _, _, _)
stackFrom(date, x, g, seriesOrder, values, j, y) ==
    IF j > Len(seriesOrder) THEN <<>>
    ELSE IF ~Less(Zero, barValue(values, date, seriesOrder[j]))
    THEN stackFrom(date, x, g, seriesOrder, values, j + 1, y)
    ELSE CHOOSE pushed \in
           {<<segmentAt(x, yCursor, g, date, seriesOrder[j], barValue(values, date, seriesOrder[j]))>>
               \o stackFrom(date, x, g, seriesOrder, values, j + 1, yCursor) :
            yCursor \in {Minus(y, segmentHeight(barValue(values, date, seriesOrder[j]), g))}} : TRUE

\* the outer loop over the dates from index i
RECURSIVE barsFrom(_, _, _, _, _)
barsFrom(dates, i, seriesOrder, values, g) ==
    IF i > Len(dates) THEN <<>>
    ELSE stackFrom(dates[i], barX(i - 1, g.barW), g, seriesOrder, values, 1,
                   <<padding.t + g.h, 1>>)
         \o barsFrom(dates, i + 1, seriesOrder, values, g)

\* the hit regions drawStackedBars pushes, in the order it pushes them: the
\* rectangle of every filled segment with its date, project and value
hitRegions(dates, seriesOrder, values, box) ==
    CHOOSE hit \in
      {barsFrom(dates, 1, seriesOrder, values, g) :
       g \in {[barW |-> barWidth(Len(dates), plotWidth(box)),
               maxTotal |-> maxTotalOf(dates, seriesOrder, values),
               h |-> plotHeight(box)]}} : TRUE

maxLabels == 10

\* step = Math.max(1, Math.ceil(n / maxLabels))
labelStep(n) == IF (n + maxLabels - 1) \div maxLabels < 1 THEN 1 ELSE (n + maxLabels - 1) \div maxLabels

\* the label under a bar: a day key and a week key lose their year
shortLabel(key) ==
    IF /\ Len(key) = 10 /\ Char(key, 5) = "-" /\ Char(key, 8) = "-"
       /\ \A i \in {1, 2, 3, 4, 6, 7, 9, 10} : IsDigit(Char(key, i))
    THEN SubSeq(key, 6, Len(key))
    ELSE IF /\ Len(key) = 8 /\ Char(key, 5) = "-" /\ Char(key, 6) = "W"
            /\ \A i \in {1, 2, 3, 4, 7, 8} : IsDigit(Char(key, i))
    THEN SubSeq(key, 6, Len(key))
    ELSE key

\* the x labels drawn, by the index (from 0) of their date
xLabels(dates) ==
    [i \in {k \in 0..(Len(dates) - 1) :
               k % labelStep(Len(dates)) = 0 \/ k = Len(dates) - 1} |-> shortLabel(dates[i + 1])]

\* setLegendChips: one chip per project and "+N more" when N > 0
setLegendChips(projects, moreCount) ==
    [chips |-> projects, more |-> IF moreCount > 0 THEN moreCount ELSE 0]

\* what drawStackedBars leaves on a canvas of the CSS size box, its legend
\* and its hover data: the text "No chart data available." when there are no
\* dates or no projects, the stacked bars and their x labels otherwise
drawStackedBars(dates, seriesOrder, values, legendMore, box) ==
    [pixels   |-> IF Len(dates) = 0 \/ Len(seriesOrder) = 0 THEN "nodata" ELSE "bars",
     legend   |-> setLegendChips(seriesOrder, legendMore),
     owHit    |-> IF Len(dates) = 0 \/ Len(seriesOrder) = 0 THEN <<>>
                  ELSE hitRegions(dates, seriesOrder, values, box),
     labels   |-> IF Len(dates) = 0 \/ Len(seriesOrder) = 0 THEN <<>> ELSE xLabels(dates),
     owValues |-> values,
     owSeries |-> seriesOrder]

\* a canvas nothing was drawn on yet
BlankCanvas ==
    [pixels |-> "blank", legend |-> setLegendChips(<<>>, 0), owHit |-> <<>>, labels |-> <<>>,
     owValues |-> [k \in {} |-> EmptyMap], owSeries |-> <<>>]

\* clearVisuals on one chart block: the pixels (bars and labels) are cleared
\* and the legend is emptied; the hover data of the canvas stays
clearVisuals(cv) ==
    [cv EXCEPT !.pixels = "blank", !.labels = <<>>, !.legend = setLegendChips(<<>>, 0)]

\* Math.round of the fraction n / d, d > 0
Round(n, d) == (2 * n + d) \div (2 * d)

\* canvas.width and canvas.height as drawStackedBars sets them: the CSS size
\* (800 x 220 when the element has none) times the device pixel ratio dpr
canvasSize(box, dpr) ==
    [width  |-> Round(cssWidth(box) * dpr[1], dpr[2]),
     height |-> Round(cssHeight(box) * dpr[1], dpr[2])]

\* the size of a canvas made by makeCanvasBlock (canvas.height = 220, the
\* default width) before drawStackedBars has sized it
CanvasDefault == [width |-> 300, height |-> 220]

\* requestRender where the earlier callback is left scheduled
requestRender_noCancel(scheduled, handle) == scheduled + 1

\* requestRender: the number of scheduled animation-frame callbacks after
\* cancelAnimationFrame(raf) (when raf is set) and requestAnimationFrame(render)
requestRender(scheduled, handle) == (IF handle THEN scheduled - 1 ELSE scheduled) + 1

\* fadeBlocks that never restores the opacity
fadeBlocks_stuck(on) == TRUE

\* fadeBlocks(on): the blocks are faded exactly when on
fadeBlocks(on) == on

\* the three deferred draws of one render(): the bucket keys and the values
\* render() computed (s), with the project list and the "+N more" count the
\* controller holds when the timeout runs (d), on canvases laid out as lay
drawAll(s, d, lay) ==
    [c \in Charts |->
        drawStackedBars(s.groupedDates, d.topProjects,
                        IF c = "income" THEN s.incomeFinal
                        ELSE IF c = "duration" THEN s.durationFinal
                        ELSE s.ratioFinal,
                        d.legendMore, lay.box[c])]

RECURSIVE SumHeights(_, _)
SumHeights(sizes, n) == IF n = 0 THEN 0 ELSE SumHeights(sizes, n - 1) + sizes[ChartOrder[n]].height

MaxWidth(sizes) == CHOOSE w \in {sizes[c].width : c \in Charts} : \A c \in Charts : sizes[c].width <= w

pad == 28

titleH == 34

\* the y at which exportPng draws the n-th canvas: the two header lines (22
\* each), then per block its title and, after each earlier block, its canvas
\* and a gap of 18
RECURSIVE drawY(_, _)
drawY(sizes, n) ==
    IF n = 1 THEN pad + 22 + 22 + titleH
    ELSE drawY(sizes, n - 1) + sizes[ChartOrder[n - 1]].height + 18 + titleH

Min(a, b) == IF a < b THEN a ELSE b

Max(a, b) == IF a < b THEN b ELSE a

\* drawImage(canvas, x, y) on an outW x outH image: the rectangle of the
\* image that receives the canvas, pixel for pixel, cut at the image's edges
drawImage(size, x, y, outW, outH) ==
    [x |-> x, y |-> y,
     width  |-> Max(0, Min(size.width, outW - x)),
     height |-> Max(0, Min(size.height, outH - y))]

exportLayout(sizes, outW, outH) ==
    [outW |-> outW, outH |-> outH, sources |-> sizes,
     copied |-> [c \in Charts |->
                    drawImage(sizes[c], (outW - sizes[c].width) \div 2,
                              drawY(sizes, CHOOSE n \in 1..Len(ChartOrder) : ChartOrder[n] = c),
                              outW, outH)]]

\* exportPng: the size of the image, the sizes of the canvases it read and
\* where each canvas lands on the image
exportPng(sizes) ==
    exportLayout(sizes, MaxWidth(sizes),
                 pad + Len(ChartOrder) * titleH + SumHeights(sizes, Len(ChartOrder)) + pad
                   + (Len(ChartOrder) - 1) * 18)

-----------------------------------------------------------------------------
(* The inputs *)

MaxRows == 2

\* timezones: west of Greenwich (UTC-5) and Greenwich itself
TzOffsets == {-5, 0}

Header == "date,project_name,amount,duration_hours"

\* data lines of a merged CSV: two projects, two days of one week, a day of
\* an earlier week, month and year (more than 14 days back), a day without
\* hours, fractional hours, a date that is not a date
RowLines ==
    {"2024-01-01,A,100,2",
     "2024-01-01,B,50,1",
     "2024-01-02,A,10,0",
     "2023-12-17,B,20,1.5",
     "TBD,B,7,1"}

RECURSIVE LinesUpTo(_)
LinesUpTo(n) ==
    IF n = 0 THEN {""}
    ELSE LinesUpTo(n - 1) \cup {body \o "\n" \o l : body \in LinesUpTo(n - 1), l \in RowLines}

\* the scenario of the specification: its header names the project column "project"
ScenarioCsv ==
    "date,project,amount,duration_hours\n2024-01-01,A,100,2\n2024-01-01,B,50,1\n2024-01-02,A,10,0"

Datasets == {Header \o body : body \in LinesUpTo(MaxRows)} \cup {ScenarioCsv}

Ranges == {"14", "30", "90", "all", "custom"}

Groups == {"day", "week", "month", "year"}

\* the custom bounds: never set, or applied from the two date inputs (the
\* later date first)
CustomBounds == {<<"", "">>, <<"2024-01-02", "2024-01-01">>}

\* the states of the controls: the custom bounds matter under range "custom"
ChartStates ==
    {[range |-> r, group |-> g, cumulative |-> c, customFrom |-> b[1], customTo |-> b[2]] :
        r \in Ranges \ {"custom"}, g \in Groups, c \in BOOLEAN, b \in {<<"", "">>}}
    \cup
    {[range |-> "custom", group |-> g, cumulative |-> c, customFrom |-> b[1], customTo |-> b[2]] :
        g \in Groups, c \in BOOLEAN, b \in CustomBounds}

NoData ==
    [dates |-> <<>>, topProjects |-> <<>>, legendMore |-> 0,
     incomeByDateProject |-> [k \in {} |-> EmptyMap],
     durationByDateProject |-> [k \in {} |-> EmptyMap],
     minDate |-> <<>>, maxDate |-> <<>>]

-----------------------------------------------------------------------------
(* Page initialisation: the workbench script block runs once on a document  *)

\* the elements the script block returns without
Required ==
    {"incomesFile", "entriesFile", "runMergeBtn", "resetAllBtn", "statusBox", "previewMerged",
     "statsMerged", "downloadBtn"}

\* ensureAuthBar on a document: null without a .aw-workbench container, the
\* #owAuthBar already beside it when there is one; otherwise the bar and the
\* modal are built and, after the declaration of openModal, the statement
\*   if (mode === "verify" && opts.token && opts.email) ...
\* runs in the scope of ensureAuthBar, where neither mode nor opts is
\* declared: it throws a ReferenceError unless the window has properties of
\* these names (doc.globals), in which case mode is not "verify" and the bar
\* is returned
ensureAuthBar(doc) ==
    IF ~doc.workbench THEN "null"
    ELSE IF doc.authBar THEN "existing"
    ELSE IF ~doc.globals THEN "threw"
    ELSE "created"

\* handleAuthLinks: the modal opened for a verify or reset link when the
\* auth bar has published openModal; errors are caught
handleAuthLinks(doc, bar) ==
    IF doc.link # "" /\ bar \in {"created", "existing"} THEN doc.link ELSE ""

\* the script block from the ensureAuthBar call to its last statement: it
\* stops at the exception, returns when a required element is missing, and
\* otherwise creates the chart controller (given the visualisations card) and
\* registers the Reset and Run-merge click handlers
bootstrapFrom(doc, bar) ==
    [doc |-> doc,
     pc |-> IF bar = "threw" THEN "threw"
            ELSE IF doc.present # Required THEN "returned" ELSE "done",
     authBar |-> bar,
     modal |-> IF bar = "threw" THEN "" ELSE handleAuthLinks(doc, bar),
     controller |-> bar # "threw" /\ doc.present = Required /\ doc.visCard,
     resetHandler |-> bar # "threw" /\ doc.present = Required,
     runHandler |-> bar # "threw" /\ doc.present = Required]

bootstrap(doc) == bootstrapFrom(doc, ensureAuthBar(doc))

\* a document with every workbench element and the visualisations card, whose
\* workbench is not inside a .aw-workbench container
PlainDocument ==
    [workbench |-> FALSE, authBar |-> FALSE, globals |-> FALSE, link |-> "",
     present |-> Required, visCard |-> TRUE]

\* the script block has run on the plain document
Booted == bootstrap(PlainDocument)

\* no runMerge call has been made.  The record holds how many calls were
\* made, the calls (id and the download_csv of their response) still awaiting
\* it, the responses' texts by id, whether a call was made while another was
\* pending, the calls that failed, and the call (0 for none) whose
\* continuation last wrote the preview, the download link, the statistics
\* panel and the status
NoMerges ==
    [started |-> 0, pending |-> {}, texts |-> <<>>, overlap |-> FALSE, failed |-> {},
     previewOf |-> 0, linkOf |-> 0, panelOf |-> 0, statusOf |-> 0]

-----------------------------------------------------------------------------
(* The workbench: a merge response arrives, the charts are recomputed *)

\* deferred draws followed at a time
MaxTimers == 2

\* the state object createChartController starts with
DefaultState ==
    [range |-> "14", group |-> "day", cumulative |-> FALSE, customFrom |-> "", customTo |-> ""]

\* the three canvases laid out 640 x 220 CSS pixels on a display of pixel ratio 1
PlainLayout ==
    [box |-> [c \in Charts |-> [clientWidth |-> 640, clientHeight |-> 220]], dpr |-> <<1, 1>>]

\* the page before anything was drawn: no callback scheduled, no deferred
\* draw pending, blank canvases of the default size, nothing exported
PageIdle ==
    /\ frames = 0
    /\ requested = 0
    /\ timers = <<>>
    /\ faded = FALSE
    /\ canvas = [c \in Charts |-> BlankCanvas]
    /\ surface = [c \in Charts |-> CanvasDefault]
    /\ exported = <<>>
    /\ table = <<>>
    /\ boot = Booted
    /\ merges = NoMerges

\* A merge request is in flight; the chart controls are in any state the
\* user can have put them in.
Init ==
    /\ tz \in TzOffsets
    /\ csvText \in Datasets
    /\ state \in ChartStates
    /\ data = NoData
    /\ stats = <<>>
    /\ inflight = TRUE
    /\ raf = FALSE
    /\ view = <<>>
    /\ layout = PlainLayout
    /\ PageIdle

\* the calls of requestRender counted since render() last ran
countRequest(n) == IF n < 2 THEN n + 1 ELSE 2

\* the effect of requestRender() on the scheduled callbacks
scheduleRender ==
    /\ frames' = requestRender(frames, raf)
    /\ raf' = TRUE
    /\ requested' = countRequest(requested)

\* the effect of setData(next) and of the statistics panel for the built values
showBuilt(b) ==
    /\ stats' = <<b.stats>>
    /\ data' = b.next
    /\ state' = setDataState(state, b.next)

\* runMerge after its await: without a CSV in the response (hasCsv is false)
\* nothing is built; otherwise buildStatsAndChartsFromCsv(data.download_csv),
\* which ends in chartController.setData(..) and its requestRender()
MergeResponse ==
    /\ inflight
    /\ IF Len(csvText) = 0
       THEN UNCHANGED <<state, data, stats, raf, frames, requested>>
       ELSE showBuilt(buildStatsAndChartsFromCsv(csvText)) /\ scheduleRender
    /\ inflight' = FALSE
    /\ UNCHANGED <<tz, csvText, view, timers, faded, canvas, layout, surface, exported, table, boot, merges>>

\* render() past its early return: the blocks are faded and the draw of the
\* computed series s is deferred by setTimeout
deferDraw(s) ==
    /\ view' = <<s>>
    /\ timers' = Append(timers, s)
    /\ faded' = fadeBlocks(TRUE)

\* the animation frame: render()
Render ==
    /\ frames > 0
    /\ frames' = frames - 1
    /\ raf' = FALSE
    /\ requested' = 0
    /\ IF Len(data.dates) = 0 \/ Len(data.topProjects) = 0
       THEN UNCHANGED <<view, timers, faded>>
       ELSE Len(timers) < MaxTimers /\ deferDraw(renderSeries)
    /\ UNCHANGED <<tz, csvText, state, data, stats, inflight, canvas, layout, surface,
                   exported, table, boot, merges>>

\* the timeout of the oldest pending render(): the three drawStackedBars
\* calls, each sizing its canvas, and fadeBlocks(false)
DrawTimeout ==
    /\ Len(timers) > 0
    /\ canvas' = drawAll(Head(timers), data, layout)
    /\ surface' = [c \in Charts |-> canvasSize(layout.box[c], layout.dpr)]
    /\ faded' = fadeBlocks(FALSE)
    /\ timers' = Tail(timers)
    /\ UNCHANGED <<tz, csvText, state, data, stats, inflight, raf, view, frames, requested,
                   layout, exported, table, boot, merges>>

Next == MergeResponse \/ Render \/ DrawTimeout

Spec == Init /\ [][Next]_vars

-----------------------------------------------------------------------------
(* The page: the chart controls, Run merge, Reset and Export PNG around the  *)
(* controller, from the moment createChartController has returned            *)

\* the responses of the merge backend: no CSV, a header only, a dataset of
\* project A and a dataset of project B
UiDatasets ==
    {"", Header, Header \o "\n2024-01-01,A,100,2", Header \o "\n2024-01-01,B,50,1"}

\* the range and granularity pills clicked, the dates typed into the custom inputs
UiRanges == {"all"}

UiGroups == {"month"}

UiBounds == {<<"2024-01-01", "2024-01-01">>}

\* createChartController has run setRange, setGroup and setCumulative with
\* the defaults: three requestRender calls, one callback scheduled
InitUI ==
    /\ tz = 0
    /\ csvText = ""
    /\ state = DefaultState
    /\ data = NoData
    /\ stats = <<>>
    /\ inflight = FALSE
    /\ raf = TRUE
    /\ view = <<>>
    /\ frames = 1
    /\ requested = 2
    /\ timers = <<>>
    /\ faded = FALSE
    /\ canvas = [c \in Charts |-> BlankCanvas]
    /\ layout = PlainLayout
    /\ surface = [c \in Charts |-> CanvasDefault]
    /\ exported = <<>>
    /\ table = <<>>
    /\ boot = Booted
    /\ merges = NoMerges

\* what a control handler leaves alone besides state and the scheduled callbacks
controlFrame ==
    UNCHANGED <<tz, csvText, data, stats, inflight, view, timers, faded, canvas, layout,
                surface, exported, table, boot, merges>>

SetRange(next) ==
    /\ state' = [state EXCEPT !.range = next]
    /\ scheduleRender
    /\ controlFrame

SetGroup(next) ==
    /\ state' = [state EXCEPT !.group = next]
    /\ scheduleRender
    /\ controlFrame

\* the cumulative pill: setCumulative(!state.cumulative)
SetCumulative ==
    /\ state' = [state EXCEPT !.cumulative = ~state.cumulative]
    /\ scheduleRender
    /\ controlFrame

\* the Apply button: setCustomRange(f, t) when both inputs hold a date; the
\* inputs hold what the user typed, or what setData or setCustomRange put there
ApplyCustom ==
    /\ \E b \in UiBounds \cup {<<state.customFrom, state.customTo>>} :
           /\ Len(b[1]) > 0 /\ Len(b[2]) > 0
           /\ state' = [state EXCEPT !.customFrom = b[1], !.customTo = b[2]]
    /\ scheduleRender
    /\ controlFrame

\* runMerge up to its await: clearVisuals() and the request, to which the
\* backend will answer with csvText; one request is followed at a time
RunMerge ==
    /\ ~inflight
    /\ inflight' = TRUE
    /\ csvText' \in UiDatasets
    /\ stats' = <<>>
    /\ canvas' = [c \in Charts |-> clearVisuals(canvas[c])]
    /\ UNCHANGED <<tz, state, data, raf, view, frames, requested, timers, faded, layout,
                   surface, exported, table, boot, merges>>

\* runMerge after its await, when the response is an error or the request failed
MergeFail ==
    /\ inflight
    /\ inflight' = FALSE
    /\ UNCHANGED <<tz, csvText, state, data, stats, raf, view, frames, requested, timers,
                   faded, canvas, layout, surface, exported, table, boot, merges>>

\* the Reset button: the inputs and status are emptied and clearVisuals() runs
ResetAll ==
    /\ stats' = <<>>
    /\ canvas' = [c \in Charts |-> clearVisuals(canvas[c])]
    /\ UNCHANGED <<tz, csvText, state, data, inflight, raf, view, frames, requested, timers,
                   faded, layout, surface, exported, table, boot, merges>>

\* the Export PNG button
ExportPng ==
    /\ exported' = <<exportPng(surface)>>
    /\ UNCHANGED <<tz, csvText, state, data, stats, inflight, raf, view, frames, requested,
                   timers, faded, canvas, layout, surface, table, boot, merges>>

NextUI ==
    \/ \E r \in UiRanges : SetRange(r)
    \/ \E g \in UiGroups : SetGroup(g)
    \/ SetCumulative
    \/ ApplyCustom
    \/ RunMerge
    \/ MergeResponse
    \/ MergeFail
    \/ Render
    \/ DrawTimeout
    \/ ResetAll

SpecUI == InitUI /\ [][NextUI]_vars

-----------------------------------------------------------------------------
(* Properties of the recomputed series *)

\* the sum of F[k] over the keys
RECURSIVE SumOver(_, _)
SumOver(keys, F) ==
    IF keys = {} THEN Zero
    ELSE LET k == CHOOSE x \in keys : TRUE
         IN  Plus(F[k], SumOver(keys \ {k}, F))

\* the value of project p under key k of a date -> project -> number map, 0
\* when the key or the project is absent
ValueAt(m, k, p) == IF k \in DOMAIN m THEN OrZero(Get(m[k], p)) ELSE Zero

\* every project of the dataset
AllProjects == IF stats = <<>> THEN {} ELSE {stats[1].projArr[j].name : j \in 1..Len(stats[1].projArr)}

\* the sum of project p's values over the buckets whose key sorts at or before k
RunningSum(m, k, p) ==
    SumOver({j \in DOMAIN m : localeCompare(j, k) <= 0}, [j \in DOMAIN m |-> ValueAt(m, j, p)])

Rendered == view # <<>>

\* C1: the scenario CSV of the specification (header date,project,amount,
\* duration_hours; rows 2024-01-01 A 100 2, 2024-01-01 B 50 1, 2024-01-02 A 10 0),
\* rendered with range "all" by day, yields exactly the buckets 2024-01-01
\* (A 100 / 2, ratio 50; B 50 / 1, ratio 50) and 2024-01-02 (A 10 / 0, ratio 0),
\* and in cumulative mode bucket 2024-01-02 shows A 110 / 2, ratio 55.
C1_ScenarioBuckets ==
    (Rendered /\ csvText = ScenarioCsv /\ state.range = "all" /\ state.group = "day") =>
        LET v == view[1]
        IN  /\ v.groupedDates = <<"2024-01-01", "2024-01-02">>
            /\ v.incomeGrouped = ("2024-01-01" :> ("A" :> <<100, 1>> @@ "B" :> <<50, 1>>)
                                  @@ "2024-01-02" :> ("A" :> <<10, 1>>))
            /\ v.durationGrouped = ("2024-01-01" :> ("A" :> <<2, 1>> @@ "B" :> <<1, 1>>)
                                    @@ "2024-01-02" :> ("A" :> Zero))
            /\ ValueAt(v.ratioGrouped, "2024-01-01", "A") = <<50, 1>>
            /\ ValueAt(v.ratioGrouped, "2024-01-01", "B") = <<50, 1>>
            /\ ValueAt(v.ratioGrouped, "2024-01-02", "A") = Zero
            /\ state.cumulative =>
                   /\ ValueAt(v.incomeFinal, "2024-01-02", "A") = <<110, 1>>
                   /\ ValueAt(v.durationFinal, "2024-01-02", "A") = <<2, 1>>
                   /\ ValueAt(v.ratioFinal, "2024-01-02", "A") = <<55, 1>>

\* C2: conservation of totals under regrouping: for every project, the sum
\* of its income (duration) over the regrouped buckets equals the sum of its
\* income (duration) over the filtered raw dates.
C2_Conservation ==
    Rendered =>
        LET v == view[1]
            f == Range(v.filteredDates)
        IN  \A p \in AllProjects :
                /\ SumOver(DOMAIN v.incomeGrouped,
                           [k \in DOMAIN v.incomeGrouped |-> ValueAt(v.incomeGrouped, k, p)])
                   = SumOver(f, [d \in f |-> ValueAt(data.incomeByDateProject, d, p)])
                /\ SumOver(DOMAIN v.durationGrouped,
                           [k \in DOMAIN v.durationGrouped |-> ValueAt(v.durationGrouped, k, p)])
                   = SumOver(f, [d \in f |-> ValueAt(data.durationByDateProject, d, p)])

C4_CumulativeRatio ==
    (Rendered /\ state.cumulative) =>
        LET v == view[1]
        IN  \A k \in DOMAIN v.ratioFinal : \A p \in Range(v.topProjects) :
                LET ri == RunningSum(v.incomeGrouped, k, p)
                    rd == RunningSum(v.durationGrouped, k, p)
                IN  v.ratioFinal[k][p] = IF rd = Zero THEN Zero ELSE Over(ri, rd)

\* a cumulative ratio that differs from the running sum of the bucket ratios
C4_Witness ==
    /\ Rendered /\ state.cumulative
    /\ \E k \in DOMAIN view[1].ratioFinal : \E p \in Range(view[1].topProjects) :
           /\ view[1].ratioFinal[k][p] # RunningSum(view[1].ratioGrouped, k, p)
           /\ view[1].ratioFinal[k][p] # Zero

\* C5: applyCumulative keeps the bucket keys, in ascending key order, and the
\* value of every listed project at a bucket is the sum of its values over
\* the buckets up to and including that one (absent means 0, the total is
\* carried forward).
C5_ApplyCumulative ==
    (Rendered /\ state.cumulative) =>
        LET v == view[1]
            g == v.groupedDates
        IN  /\ DOMAIN v.incomeFinal = DOMAIN v.incomeGrouped
            /\ DOMAIN v.durationFinal = DOMAIN v.durationGrouped
            /\ Range(g) = DOMAIN v.incomeFinal
            /\ \A i \in 1..Len(g) : \A j \in 1..Len(g) : i < j => localeCompare(g[i], g[j]) < 0
            /\ \A k \in DOMAIN v.incomeFinal :
                   /\ DOMAIN v.incomeFinal[k] = Range(v.topProjects)
                   /\ DOMAIN v.durationFinal[k] = Range(v.topProjects)
                   /\ \A p \in Range(v.topProjects) :
                          /\ v.incomeFinal[k][p] = RunningSum(v.incomeGrouped, k, p)
                          /\ v.durationFinal[k][p] = RunningSum(v.durationGrouped, k, p)

\* a project absent from a later bucket shows the total it carried forward
C5_Witness ==
    /\ Rendered /\ state.cumulative
    /\ \E k \in DOMAIN view[1].incomeFinal : \E p \in Range(view[1].topProjects) :
           /\ p \notin DOMAIN view[1].incomeGrouped[k]
           /\ view[1].incomeFinal[k][p] # Zero

\* C6: in cumulative mode the last bucket shows, for every displayed project,
\* the sum of its raw-date income (duration) over the filtered raw dates.
C6_LastBucketTotal ==
    (Rendered /\ state.cumulative /\ Len(view[1].groupedDates) > 0) =>
        LET v    == view[1]
            f    == Range(v.filteredDates)
            last == v.groupedDates[Len(v.groupedDates)]
        IN  \A p \in Range(v.topProjects) :
                /\ v.incomeFinal[last][p]
                   = SumOver(f, [d \in f |-> ValueAt(data.incomeByDateProject, d, p)])
                /\ v.durationFinal[last][p]
                   = SumOver(f, [d \in f |-> ValueAt(data.durationByDateProject, d, p)])

-----------------------------------------------------------------------------
(* The range filter: datasets whose dates lie on both sides of the 14-, 30- *)
(* and 90-day cutoffs, under every range and with custom bounds in either   *)
(* order                                                                    *)

RangeRowLines ==
    {"2024-01-15,A,1,1",
     "2024-01-02,A,1,1",
     "2024-01-01,A,1,1",
     "2023-12-17,A,1,1",
     "2023-12-16,A,1,1",
     "2023-10-18,A,1,1",
     "2023-10-17,A,1,1",
     "TBD,A,1,1"}

RECURSIVE RangeLinesUpTo(_)
RangeLinesUpTo(n) ==
    IF n = 0 THEN {""}
    ELSE RangeLinesUpTo(n - 1)
         \cup {body \o "\n" \o l : body \in RangeLinesUpTo(n - 1), l \in RangeRowLines}

RangeDatasets == {Header \o body : body \in RangeLinesUpTo(MaxRows)}

RangeBounds ==
    {<<"", "">>, <<"2024-01-02", "2023-12-17">>, <<"2023-12-17", "2024-01-02">>}

RangeStates ==
    {[range |-> r, group |-> "day", cumulative |-> FALSE, customFrom |-> b[1], customTo |-> b[2]] :
        r \in Ranges, b \in RangeBounds}

InitRange ==
    /\ tz \in TzOffsets
    /\ csvText \in RangeDatasets
    /\ state \in RangeStates
    /\ data = NoData
    /\ stats = <<>>
    /\ inflight = TRUE
    /\ raf = FALSE
    /\ view = <<>>
    /\ layout = PlainLayout
    /\ PageIdle

SpecRange == InitRange /\ [][Next]_vars

\* the latest calendar day of the full dataset
MaxCalDay ==
    LET days == {CalDay(d) : d \in {x \in Range(data.dates) : IsIsoDate(x)}}
    IN  CHOOSE a \in days : \A b \in days : a >= b

LastN == IF state.range = "14" THEN 14 ELSE IF state.range = "30" THEN 30 ELSE 90

\* C7: under range 14, 30 or 90 the filter keeps exactly the dates whose
\* calendar day is on or after the latest day of the full dataset minus
\* (N - 1) days, whatever the custom bounds are.
C7_LastN ==
    (Rendered /\ state.range \in {"14", "30", "90"}) =>
        view[1].filteredDates
        = SelectSeq(data.dates,
                    LAMBDA d : IsIsoDate(d) /\ CalDay(d) >= MaxCalDay - (LastN - 1))

\* a date exactly N - 1 days before the latest one is kept and an earlier
\* one is dropped, with custom bounds set that would select otherwise
C7_Witness ==
    /\ Rendered /\ state.range \in {"14", "30", "90"}
    /\ state.customFrom = "2024-01-02"
    /\ \E d \in Range(view[1].filteredDates) :
           IsIsoDate(d) /\ CalDay(d) = MaxCalDay - (LastN - 1)

\* C8: under range custom with two parseable bounds the filter keeps exactly
\* the dates from the earlier bound to the later one, both included, so
\* swapping the bounds changes nothing.
C8_Custom ==
    (Rendered /\ state.range = "custom"
        /\ toDateObj(state.customFrom) # <<>> /\ toDateObj(state.customTo) # <<>>) =>
        LET f  == CalDay(state.customFrom)
            t  == CalDay(state.customTo)
            lo == IF f < t THEN f ELSE t
            hi == IF f < t THEN t ELSE f
        IN  /\ view[1].filteredDates
               = SelectSeq(data.dates,
                           LAMBDA d : IsIsoDate(d) /\ lo <= CalDay(d) /\ CalDay(d) <= hi)
            /\ view[1].filteredDates
               = customDates(data.dates, toDateObj(state.customTo)[1],
                             toDateObj(state.customFrom)[1])

\* the from bound is the later one, a date on a bound is kept and a date
\* outside is dropped
C8_Witness ==
    /\ Rendered /\ state.range = "custom"
    /\ state.customFrom = "2024-01-02" /\ state.customTo = "2023-12-17"
    /\ \E d \in Range(view[1].filteredDates) : d \in {"2024-01-02", "2023-12-17"}
    /\ Len(view[1].filteredDates) < Len(data.dates)

\* C9: under range custom, when a bound is empty or does not parse, the
\* filter returns the full date list, in order.
C9_CustomFallback ==
    (Rendered /\ state.range = "custom"
        /\ (toDateObj(state.customFrom) = <<>> \/ toDateObj(state.customTo) = <<>>)) =>
        view[1].filteredDates = data.dates

\* the custom bounds were never set and the dataset has dates
C9_Witness ==
    /\ Rendered /\ state.range = "custom"
    /\ state.customFrom = "" /\ state.customTo = ""
    /\ Len(view[1].filteredDates) > 0

-----------------------------------------------------------------------------
(* The order of the bucket keys: datasets with dates around the turn of an  *)
(* ISO week year and around the first four-digit year, under every          *)
(* granularity                                                              *)

KeyRowLines ==
    {"0999-12-31,A,1,1",
     "1000-01-02,A,1,1",
     "2020-12-31,A,1,1",
     "2021-01-03,A,1,1",
     "2021-01-04,A,1,1",
     "2021-02-01,A,1,1"}

RECURSIVE KeyLinesUpTo(_)
KeyLinesUpTo(n) ==
    IF n = 0 THEN {""}
    ELSE KeyLinesUpTo(n - 1)
         \cup {body \o "\n" \o l : body \in KeyLinesUpTo(n - 1), l \in KeyRowLines}

KeyDatasets == {Header \o body : body \in KeyLinesUpTo(MaxRows)}

KeyStates ==
    {[range |-> "all", group |-> g, cumulative |-> c, customFrom |-> "", customTo |-> ""] :
        g \in Groups, c \in BOOLEAN}

InitKeys ==
    /\ tz \in TzOffsets
    /\ csvText \in KeyDatasets
    /\ state \in KeyStates
    /\ data = NoData
    /\ stats = <<>>
    /\ inflight = TRUE
    /\ raf = FALSE
    /\ view = <<>>
    /\ layout = PlainLayout
    /\ PageIdle

SpecKeys == InitKeys /\ [][Next]_vars

\* the bucket key of a raw date under the selected granularity
KeyOf(d) == formatGroupKey(toDateObj(d)[1], state.group)

\* C10: the bucket list handed to the charts is ascending by key, and the
\* key order agrees with chronological order: an earlier date's key sorts
\* before or equal to a later date's key.
C10_KeyOrder ==
    Rendered =>
        LET g == view[1].groupedDates
            f == {d \in Range(view[1].filteredDates) : toDateObj(d) # <<>>}
        IN  /\ \A i \in 1..Len(g) : \A j \in 1..Len(g) :
                   i < j => localeCompare(g[i], g[j]) < 0
            /\ \A d1 \in f : \A d2 \in f :
                   CalDay(d1) < CalDay(d2) => localeCompare(KeyOf(d1), KeyOf(d2)) <= 0

-----------------------------------------------------------------------------
(* Quoted fields: tables whose cells hold commas, quotes and line breaks,   *)
(* written as CSV with the usual quoting, and read back by parseCsv         *)

\* records per table
MaxRecords == 2

\* cells: plain, with a comma, with a quote, with a line break, empty
Cells == {"x", "p,q", "6\" nail", "l1\nl2", ""}

RECURSIVE doubleQuotes(_)
doubleQuotes(s) ==
    IF Len(s) = 0 THEN ""
    ELSE (IF Char(s, 1) = "\"" THEN "\"\"" ELSE Char(s, 1)) \o doubleQuotes(SubSeq(s, 2, Len(s)))

\* a cell as a CSV field: quoted, with its quotes doubled, when it holds a
\* comma, a quote or a line break
csvField(cell) ==
    IF IndicesOf(cell, {",", "\"", "\n"}) = {} THEN cell
    ELSE "\"" \o doubleQuotes(cell) \o "\""

csvRecord(r) == csvField(r[1]) \o "," \o csvField(r[2])

RECURSIVE csvRecords(_)
csvRecords(rs) == IF Len(rs) = 0 THEN "" ELSE "\n" \o csvRecord(Head(rs)) \o csvRecords(Tail(rs))

\* the CSV text of a table with the columns a and b
csvOf(rs) == "a,b" \o csvRecords(rs)

RECURSIVE TablesOf(_)
TablesOf(n) ==
    IF n = 0 THEN {<<>>}
    ELSE {Append(t, <<x, y>>) : t \in TablesOf(n - 1), x \in Cells, y \in Cells}

CsvTables == UNION {TablesOf(n) : n \in 1..MaxRecords}

\* the page after construction and its first, empty frame; the CSV text to
\* parse is that of any table
InitCsv ==
    /\ tz = 0
    /\ csvText \in {csvOf(t) : t \in CsvTables}
    /\ state = DefaultState
    /\ data = NoData
    /\ stats = <<>>
    /\ inflight = FALSE
    /\ raf = FALSE
    /\ view = <<>>
    /\ layout = PlainLayout
    /\ PageIdle

\* buildStatsAndChartsFromCsv, its first statement: parseCsv(csvText)
ParseCsv ==
    /\ table = <<>>
    /\ table' = <<parseCsv(csvText)>>
    /\ UNCHANGED <<tz, csvText, state, data, stats, inflight, raf, view, frames, requested,
                   timers, faded, canvas, layout, surface, exported, boot, merges>>

NextCsv == ParseCsv

SpecCsv == InitCsv /\ [][NextCsv]_vars

\* the rows parseCsv is to return for a table
rowsOf(rs) == [i \in 1..Len(rs) |-> [h \in {"a", "b"} |-> IF h = "a" THEN rs[i][1] ELSE rs[i][2]]]

\* C11: parseCsv un-escapes a doubled quote inside a quoted field to one quote,
\* and keeps a comma or a line break inside a quoted field as content of that
\* field: the rows it returns for the CSV text of a table are the table's
\* records, cell for cell.
C11_QuotedFields ==
    \A t \in CsvTables :
        (table # <<>> /\ csvText = csvOf(t)) => table[1].rows = rowsOf(t)

-----------------------------------------------------------------------------
(* Properties of the page *)

\* nothing is in flight, scheduled or deferred: the page has settled
Settled == ~inflight /\ frames = 0 /\ Len(timers) = 0

\* C12: for a CSV with zero data records the aggregation yields no buckets and,
\* once the page has settled, each of the three charts is in the "No chart
\* data available." state with an empty hit-region list.
C12_NoDataState ==
    (Settled /\ stats # <<>> /\ stats[1].rowCount = 0) =>
        /\ Len(data.dates) = 0
        /\ \A c \in Charts : canvas[c].pixels = "nodata" /\ Len(canvas[c].owHit) = 0

-----------------------------------------------------------------------------
(* Number cells: one-row datasets whose amount and duration cells hold      *)
(* every kind of text, and datasets without one of the two columns          *)

\* the texts of a number cell, each with the number it stands for (0 when it
\* stands for none): empty, blank, words, NaN, the infinities, decimals with
\* sign, fraction, padding and exponent, a hexadecimal integer
NumberCells ==
    ("" :> Zero) @@ (" " :> Zero) @@ ("abc" :> Zero) @@ ("NaN" :> Zero)
    @@ ("Infinity" :> Zero) @@ ("-Infinity" :> Zero) @@ ("12.5.1" :> Zero)
    @@ ("12.5" :> <<25, 2>>) @@ ("-3" :> <<-3, 1>>) @@ (" 7 " :> <<7, 1>>)
    @@ ("1e2" :> <<100, 1>>) @@ ("0x10" :> <<16, 1>>)

NumberCsv(a, d) == Header \o "\n2024-01-01,A," \o a \o "," \o d

\* the same row under a header without the duration column, and under one
\* without the amount column
NoDurationCsv(a) == "date,project_name,amount\n2024-01-01,A," \o a

NoAmountCsv(d) == "date,project_name,duration_hours\n2024-01-01,A," \o d

NumberDatasets ==
    {NumberCsv(a, d) : a \in DOMAIN NumberCells, d \in DOMAIN NumberCells}
    \cup {NoDurationCsv(a) : a \in DOMAIN NumberCells}
    \cup {NoAmountCsv(d) : d \in DOMAIN NumberCells}

\* a merge request is in flight, the controls are at their defaults
InitNumbers ==
    /\ tz = 0
    /\ csvText \in NumberDatasets
    /\ state = DefaultState
    /\ data = NoData
    /\ stats = <<>>
    /\ inflight = TRUE
    /\ raf = FALSE
    /\ view = <<>>
    /\ layout = PlainLayout
    /\ PageIdle

SpecNumbers == InitNumbers /\ [][Next]_vars

\* the dataset built from a single row of 2024-01-01 and project A holds the
\* income x and the duration y, as totals and per date and project
RowNormalized(x, y) ==
    /\ stats[1].totalIncome = x
    /\ stats[1].totalDuration = y
    /\ barValue(data.incomeByDateProject, "2024-01-01", "A") = x
    /\ barValue(data.durationByDateProject, "2024-01-01", "A") = y
    /\ isFinite(stats[1].totalIncome) /\ isFinite(stats[1].totalDuration)
    /\ isFinite(stats[1].overallRatio)

\* C13: whatever text the income and duration cells of a row hold (or when the
\* column is missing), the normalized income and duration are finite: the
\* number the text stands for, and 0 when the cell is missing, empty or not a
\* finite number.
C13_FiniteNumbers ==
    stats # <<>> =>
        /\ \A a \in DOMAIN NumberCells, d \in DOMAIN NumberCells :
               csvText = NumberCsv(a, d) => RowNormalized(NumberCells[a], NumberCells[d])
        /\ \A a \in DOMAIN NumberCells :
               csvText = NoDurationCsv(a) => RowNormalized(NumberCells[a], Zero)
        /\ \A d \in DOMAIN NumberCells :
               csvText = NoAmountCsv(d) => RowNormalized(Zero, NumberCells[d])

\* a row with the income "Infinity" and the duration "NaN" has been normalized
C13_Witness ==
    /\ stats # <<>>
    /\ csvText = NumberCsv("Infinity", "NaN")
    /\ RowNormalized(Zero, Zero)

-----------------------------------------------------------------------------
(* The income column: datasets with the columns amount and amount_gbp, and  *)
(* datasets without amount_gbp                                              *)

\* the texts of an income cell with their numbers
IncomeCells == ("" :> Zero) @@ (" " :> Zero) @@ ("4" :> <<4, 1>>) @@ ("10" :> <<10, 1>>)

GbpHeader == "date,project_name,amount,amount_gbp,duration_hours"

\* a row of project p with the amount a and the amount_gbp g
GbpLine(p, a, g) == "\n2024-01-01," \o p \o "," \o a \o "," \o g \o ",1"

\* a row of project A and a row of project B
GbpCsv(a1, g1, a2, g2) == GbpHeader \o GbpLine("A", a1, g1) \o GbpLine("B", a2, g2)

\* the same two rows without the column amount_gbp
AmountCsv(a1, a2) == Header \o "\n2024-01-01,A," \o a1 \o ",1\n2024-01-01,B," \o a2 \o ",1"

IncomeDatasets ==
    {GbpCsv(a1, g1, a2, g2) : a1 \in DOMAIN IncomeCells, g1 \in DOMAIN IncomeCells,
                              a2 \in DOMAIN IncomeCells, g2 \in DOMAIN IncomeCells}
    \cup {AmountCsv(a1, a2) : a1 \in DOMAIN IncomeCells, a2 \in DOMAIN IncomeCells}

InitIncome ==
    /\ tz = 0
    /\ csvText \in IncomeDatasets
    /\ state = DefaultState
    /\ data = NoData
    /\ stats = <<>>
    /\ inflight = TRUE
    /\ raf = FALSE
    /\ view = <<>>
    /\ layout = PlainLayout
    /\ PageIdle

SpecIncome == InitIncome /\ [][Next]_vars

\* the built dataset names the column label and holds the income x for the
\* row of project A and y for the row of project B
IncomeFrom(label, x, y) ==
    /\ stats[1].incomeLabel = label
    /\ barValue(data.incomeByDateProject, "2024-01-01", "A") = x
    /\ barValue(data.incomeByDateProject, "2024-01-01", "B") = y
    /\ stats[1].totalIncome = Plus(x, y)

\* C14: the income column is chosen once per dataset: amount_gbp for every row
\* when some row has a non-blank amount_gbp, amount for every row otherwise;
\* a row with a blank amount_gbp in a dataset that uses amount_gbp has income 0
\* even when its amount is not empty.
C14_DatasetColumn ==
    stats # <<>> =>
        /\ \A a1 \in DOMAIN IncomeCells, g1 \in DOMAIN IncomeCells,
              a2 \in DOMAIN IncomeCells, g2 \in DOMAIN IncomeCells :
               csvText = GbpCsv(a1, g1, a2, g2) =>
                   IF g1 \in {"", " "} /\ g2 \in {"", " "}
                   THEN IncomeFrom("amount", IncomeCells[a1], IncomeCells[a2])
                   ELSE IncomeFrom("amount_gbp", IncomeCells[g1], IncomeCells[g2])
        /\ \A a1 \in DOMAIN IncomeCells, a2 \in DOMAIN IncomeCells :
               csvText = AmountCsv(a1, a2) =>
                   IncomeFrom("amount", IncomeCells[a1], IncomeCells[a2])

\* a dataset that uses amount_gbp, with a row whose amount_gbp is empty and
\* whose amount is 10: its income is 0
C14_Witness ==
    /\ stats # <<>>
    /\ csvText = GbpCsv("10", "", "10", "4")
    /\ IncomeFrom("amount_gbp", Zero, <<4, 1>>)

-----------------------------------------------------------------------------
(* Export PNG: the three canvases laid out in several CSS sizes on displays *)
(* of pixel ratio 1 and 1.5, exported before and after the charts are drawn *)

\* the CSS boxes of a canvas (0 x 0: not laid out) and the device pixel ratios
Boxes ==
    {[clientWidth |-> w, clientHeight |-> h] : w \in {0, 640}, h \in {0, 215}}

PixelRatios == {<<1, 1>>, <<3, 2>>}

Layouts == {[box |-> b, dpr |-> r] : b \in [Charts -> Boxes], r \in PixelRatios}

\* a merge request for a dataset of two projects is in flight
InitExport ==
    /\ tz = 0
    /\ csvText = Header \o "\n2024-01-01,A,100,2\n2024-01-01,B,50,1"
    /\ state = DefaultState
    /\ data = NoData
    /\ stats = <<>>
    /\ inflight = TRUE
    /\ raf = FALSE
    /\ view = <<>>
    /\ layout \in Layouts
    /\ PageIdle

NextExport == MergeResponse \/ Render \/ DrawTimeout \/ ExportPng

SpecExport == InitExport /\ [][NextExport]_vars

\* C15: the height of the exported image is the fixed margins (28 above and
\* below, 18 between charts) plus one title height per chart plus the sum of
\* the canvases' pixel heights, and each canvas is copied at its native pixel
\* width and height.
C15_ExportGeometry ==
    exported # <<>> =>
        /\ exported[1].outH
             = 2 * pad + 2 * 18 + 3 * titleH
               + exported[1].sources["income"].height
               + exported[1].sources["duration"].height
               + exported[1].sources["ratio"].height
        /\ \A c \in Charts :
               /\ exported[1].copied[c].width = exported[1].sources[c].width
               /\ exported[1].copied[c].height = exported[1].sources[c].height

-----------------------------------------------------------------------------
(* Reset, coalescing, stale data and the lifecycle of the control state,    *)
(* checked on the page (SpecUI)                                             *)

\* C16: Reset discards all derived series: the controller holds no dataset,
\* the canvases' hit regions are empty, and no callback scheduled before the
\* reset is left to draw the old dataset.
C16_ResetDiscards ==
    [][ResetAll =>
          /\ data' = NoData
          /\ \A c \in Charts : Len(canvas'[c].owHit) = 0
          /\ frames' = 0
          /\ Len(timers') = 0]_vars

\* C17: each requestRender cancels the callback scheduled before it, so at most
\* one render() is pending at any time, and however many control changes were
\* made since the last frame, the frame runs render() once and leaves none
\* scheduled.
C17_Coalesced ==
    /\ [](frames <= 1 /\ (raf <=> frames = 1) /\ (requested > 0 => frames = 1))
    /\ [][Render => frames' = 0]_vars

\* several requestRender calls were made since render() last ran, and one
\* callback is scheduled
C17_Witness == requested = 2 /\ frames = 1 /\ stats # <<>>

\* C18: a dataset replaces the previous one wholesale: no draw combines bucket
\* keys and values computed from one dataset with the project list or the
\* "+N more" count of another.  (A deferred draw holds the project list and
\* the count of the dataset its series were computed from.)
C18_NoMixedDraw ==
    [][DrawTimeout =>
          /\ data.topProjects = Head(timers).topProjects
          /\ data.legendMore = Head(timers).legendMore]_vars

\* the page with the granularity and cumulative pills, Run merge and Reset
NextLive ==
    \/ \E g \in UiGroups : SetGroup(g)
    \/ SetCumulative
    \/ RunMerge
    \/ MergeResponse
    \/ ResetAll
    \/ Render
    \/ DrawTimeout

\* The browser runs a due timeout: the deferred draw of a render() is not
\* postponed forever.
SpecLive == InitUI /\ [][NextLive]_vars /\ WF_vars(DrawTimeout)

\* C19: the chart blocks are faded only while a deferred draw is pending, and
\* whenever they are faded the draw of the three charts follows and un-fades
\* them: the recomputing state is never permanent.
C19_Unfades ==
    /\ [](faded => Len(timers) > 0)
    /\ (faded ~> ~faded)

\* a render() of a loaded dataset has faded the blocks and its draw is pending
C19_Witness == faded /\ Len(timers) > 0 /\ view # <<>>

\* C20: the control state {range, group, cumulative, customFrom, customTo}
\* starts at its defaults, is changed only by setRange, setGroup,
\* setCumulative and setCustomRange, is left unchanged by loading a dataset
\* (setData), by render, by the deferred draw and by export, and is back at
\* its defaults after Reset.
C20_StateLifecycle ==
    /\ state = DefaultState
    /\ [][state' # state =>
            \/ \E r \in UiRanges : SetRange(r)
            \/ \E g \in UiGroups : SetGroup(g)
            \/ SetCumulative
            \/ ApplyCustom]_vars
    /\ [][(MergeResponse \/ Render \/ DrawTimeout \/ ExportPng) => state' = state]_vars
    /\ [][ResetAll => state' = DefaultState]_vars

-----------------------------------------------------------------------------
(* Week keys, checked on the datasets around the turn of an ISO week year   *)
(* (SpecKeys)                                                               *)

\* the Monday of the week that contains 4 January of year y: the first day
\* of ISO week 1 (the week with the year's first Thursday)
WeekOneMonday(y) == DaysFromCivil(y, 1, 4) - ((WeekDay(DaysFromCivil(y, 1, 4)) + 6) % 7)

\* the ISO week year of a calendar day that lies in calendar year y
IsoWeekYear(day, y) ==
    IF day < WeekOneMonday(y) THEN y - 1
    ELSE IF day >= WeekOneMonday(y + 1) THEN y + 1
    ELSE y

IsoWeekOfYear(day, wy) == IntToStr(wy) \o "-W" \o Pad2((day - WeekOneMonday(wy)) \div 7 + 1)

\* '<ISO week-year>-W<two-digit ISO week number>' of a calendar day
IsoWeek(day) == IsoWeekOfYear(day, IsoWeekYear(day, CivilFromDays(day).y))

\* C21: the week key of every calendar date is its ISO week year and week
\* number (Monday start, week 1 holds the first Thursday), so the seven days
\* Monday..Sunday of a week share one key, and the key depends on the
\* calendar date only: the week buckets of a view are the ISO weeks of its
\* dates.
C21_IsoWeekKey ==
    (Rendered /\ state.group = "week") =>
        /\ \A d \in Range(view[1].filteredDates) :
               IsIsoDate(d) => KeyOf(d) = IsoWeek(CalDay(d))
        /\ Range(view[1].groupedDates)
             = {IsoWeek(CalDay(d)) : d \in {x \in Range(view[1].filteredDates) : IsIsoDate(x)}}

-----------------------------------------------------------------------------
(* Top projects: datasets of five to eight projects on one date, with       *)
(* positive, zero, negative and equal incomes in many orders                *)

ProjectNames == "ABCDEFGH"

\* the amount of the i-th project's row in the k-th arrangement: for k > 0 the
\* amounts are distinct, for k = 0 they are all equal
TopAmount(i, k) == ((i * k) % 11) - 5

\* an integer as the text of a CSV cell
Amt(v) == IF v < 0 THEN "-" \o IntToStr(0 - v) ELSE IntToStr(v)

RECURSIVE TopLines(_, _)
TopLines(n, k) ==
    IF n = 0 THEN ""
    ELSE TopLines(n - 1, k) \o "\n2024-01-01," \o Char(ProjectNames, n) \o ","
         \o Amt(TopAmount(n, k)) \o ",1"

\* n projects in the k-th arrangement, with or without a second row of 20
\* for project A
TopCsv(n, k, extra) ==
    Header \o TopLines(n, k) \o (IF extra THEN "\n2024-01-01,A,20,1" ELSE "")

TopDatasets == {TopCsv(n, k, e) : n \in 5..8, k \in 0..10, e \in BOOLEAN}

InitTop ==
    /\ tz = 0
    /\ csvText \in TopDatasets
    /\ state = DefaultState
    /\ data = NoData
    /\ stats = <<>>
    /\ inflight = TRUE
    /\ raf = FALSE
    /\ view = <<>>
    /\ layout = PlainLayout
    /\ PageIdle

SpecTop == InitTop /\ [][Next]_vars

\* the total income of the i-th project of such a dataset
TopIncome(i, k, extra) == TopAmount(i, k) + (IF extra /\ i = 1 THEN 20 ELSE 0)

\* the index of a project name
TopIndex(name) == CHOOSE i \in 1..Len(ProjectNames) : Char(ProjectNames, i) = name

RECURSIVE TopSum(_, _, _)
TopSum(n, k, extra) == IF n = 0 THEN 0 ELSE TopSum(n - 1, k, extra) + TopIncome(n, k, extra)

\* top holds the largest incomes of the n projects in descending order, more
\* counts the others, and the others are in the totals and per-date maps
TopSelected(top, more, n, k, extra) ==
    /\ Len(top) = (IF n < maxProjects THEN n ELSE maxProjects)
    /\ \A a \in 1..Len(top) : top[a] \in {Char(ProjectNames, i) : i \in 1..n}
    /\ \A a \in 1..Len(top) : \A b \in 1..Len(top) :
           a < b => /\ top[a] # top[b]
                    /\ TopIncome(TopIndex(top[a]), k, extra) >= TopIncome(TopIndex(top[b]), k, extra)
    /\ \A i \in 1..n : \A a \in 1..Len(top) :
           Char(ProjectNames, i) \notin Range(top)
               => TopIncome(i, k, extra) <= TopIncome(TopIndex(top[a]), k, extra)
    /\ more = n - Len(top)
    /\ stats[1].totalIncome = <<TopSum(n, k, extra), 1>>
    /\ stats[1].totalDuration = <<n + (IF extra THEN 1 ELSE 0), 1>>
    /\ \A i \in 1..n :
           /\ barValue(data.incomeByDateProject, "2024-01-01", Char(ProjectNames, i))
                = <<TopIncome(i, k, extra), 1>>
           /\ barValue(data.durationByDateProject, "2024-01-01", Char(ProjectNames, i))
                = <<1 + (IF extra /\ i = 1 THEN 1 ELSE 0), 1>>

\* C22: topProjects holds the at most 6 projects with the largest total income
\* in descending income order, legendMore is the number of projects left out,
\* and the projects left out are still in the totals of the quick statistics
\* and in the per-date income and duration maps.
C22_TopProjects ==
    stats # <<>> =>
        \A n \in 5..8, k \in 0..10, e \in BOOLEAN :
            csvText = TopCsv(n, k, e) => TopSelected(data.topProjects, data.legendMore, n, k, e)

\* eight projects appearing in ascending order of income: the two that
\* appear first are left out
C22_Witness ==
    /\ stats # <<>>
    /\ csvText = TopCsv(8, 1, FALSE)
    /\ data.topProjects = <<"H", "G", "F", "E", "D", "C">>
    /\ data.legendMore = 2

-----------------------------------------------------------------------------
(* Bars: datasets of one to twenty-one days with two projects, drawn on     *)
(* narrow, ordinary and unsized canvases                                    *)

MaxDays == 21

BarDays == {1, 2, 7, 10, 11, 20, MaxDays}

\* the days of the datasets that have two projects
PairDays == {1, 2, 7, 10}

\* the amounts of projects A and B on the i-th day in the k-th pattern:
\* equal amounts, or a negative amount on the first day
BarAmounts(i, k) ==
    IF k = 0 THEN <<1, 1>>
    ELSE IF i = 1 THEN <<10, -5>> ELSE <<3, 2>>

BarPatterns == {0, 1}

RECURSIVE BarLines(_, _)
BarLines(n, k) ==
    IF n = 0 THEN ""
    ELSE BarLines(n - 1, k)
         \o "\n2024-01-" \o Pad2(n) \o ",A," \o Amt(BarAmounts(n, k)[1]) \o ",1"
         \o "\n2024-01-" \o Pad2(n) \o ",B," \o Amt(BarAmounts(n, k)[2]) \o ",1"

\* n days of projects A and B in the k-th pattern
BarCsv(n, k) == Header \o BarLines(n, k)

RECURSIVE DayLines(_)
DayLines(n) ==
    IF n = 0 THEN ""
    ELSE DayLines(n - 1) \o "\n2024-01-" \o Pad2(n) \o ",A," \o IntToStr(n) \o ",1"

\* n days of project A alone, earning n on the n-th day
DayCsv(n) == Header \o DayLines(n)

BarDatasets == {BarCsv(n, k) : n \in PairDays, k \in BarPatterns} \cup {DayCsv(n) : n \in BarDays}

BarBoxes == {[clientWidth |-> w, clientHeight |-> 220] : w \in {0, 120, 640}}

BarLayouts == {[box |-> [c \in Charts |-> b], dpr |-> <<1, 1>>] : b \in BarBoxes}

\* a merge request is in flight and the range control is on "all"
InitBars ==
    /\ tz = 0
    /\ csvText \in BarDatasets
    /\ state = [DefaultState EXCEPT !.range = "all"]
    /\ data = NoData
    /\ stats = <<>>
    /\ inflight = TRUE
    /\ raf = FALSE
    /\ view = <<>>
    /\ layout \in BarLayouts
    /\ PageIdle

SpecBars == InitBars /\ [][Next]_vars

\* the deferred draw of the current view has painted chart c with bars
BarsDrawn(c) == Len(timers) = 0 /\ view # <<>> /\ canvas[c].pixels = "bars"

\* the total of bucket d over the displayed projects of chart c
ViewTotal(c, d) ==
    bucketTotal(canvas[c].owValues, d, canvas[c].owSeries, Len(canvas[c].owSeries))

\* the maximum bucket total of the view drawn on chart c
ViewMax(c) == LargestOf({ViewTotal(c, d) : d \in Range(view[1].groupedDates)})

\* the hit rectangles of bucket d, in the order they were pushed
stackOf(hit, d) == SelectSeq(hit, LAMBDA r : r.date = d)

\* the sum of the heights of the first n rectangles of a stack
RECURSIVE stackHeight(_, _)
stackHeight(stack, n) ==
    IF n = 0 THEN Zero ELSE Plus(stackHeight(stack, n - 1), stack[n].h)

\* the position of project p in seriesOrder
seriesIndex(seriesOrder, p) == CHOOSE j \in 1..Len(seriesOrder) : seriesOrder[j] = p

\* the rectangles of a stack sit on the bottom of the plot, each on top of
\* the one before it, in project order
StackedBottomUp(stack, seriesOrder, bottom) ==
    /\ Len(stack) > 0 => Plus(stack[1].y, stack[1].h) = bottom
    /\ \A n \in 2..Len(stack) :
          /\ Plus(stack[n].y, stack[n].h) = stack[n - 1].y
          /\ seriesIndex(seriesOrder, stack[n - 1].project) < seriesIndex(seriesOrder, stack[n].project)

StackScaled(c, d, stack, h) ==
    /\ StackedBottomUp(stack, canvas[c].owSeries, <<padding.t + h, 1>>)
    /\ stackHeight(stack, Len(stack)) = Times(Over(ViewTotal(c, d), ViewMax(c)), <<h, 1>>)
    /\ ~Less(<<h, 1>>, stackHeight(stack, Len(stack)))
    /\ ViewTotal(c, d) = ViewMax(c) => stackHeight(stack, Len(stack)) = <<h, 1>>

\* C23: in every drawn chart whose maximum bucket total is positive, the
\* segments of each bucket are stacked bottom-up in project order without
\* gaps, their heights sum to (bucket total / maximum bucket total) x plot
\* height, no stack is taller than the plot, and the bucket with the maximum
\* total is exactly as tall as the plot
C23_StackHeights ==
    \A c \in Charts :
        (BarsDrawn(c) /\ Less(Zero, ViewMax(c))) =>
            \A d \in Range(view[1].groupedDates) :
                StackScaled(c, d, stackOf(canvas[c].owHit, d), plotHeight(layout.box[c]))

\* the bounds test of the mousemove handler for the pointer at (mx, my)
contains(r, mx, my) ==
    /\ ~Less(mx, r.x)
    /\ ~Less(Plus(r.x, r.w), mx)
    /\ ~Less(my, r.y)
    /\ ~Less(Plus(r.y, r.h), my)

\* the rectangles of a hit list that contain a point
containing(hit, q) == {k \in 1..Len(hit) : contains(hit[k], q[1], q[2])}

\* the points on the grid of the rectangles' edges: two rectangles that share
\* a point share one of these
EdgePoints(hit) ==
    {<<mx, my>> : mx \in UNION {{hit[k].x, Plus(hit[k].x, hit[k].w)} : k \in 1..Len(hit)},
                  my \in UNION {{hit[k].y, Plus(hit[k].y, hit[k].h)} : k \in 1..Len(hit)}}

\* C24: in every drawn chart no point lies, under the inclusive bounds test of
\* the hover handler, in more than one hit rectangle
C24_DisjointHits ==
    \A c \in Charts :
        BarsDrawn(c) =>
            \A q \in EdgePoints(canvas[c].owHit) :
                Cardinality(containing(canvas[c].owHit, q)) <= 1

\* the indices (from 0) of the buckets labelled at stride ceil(n / maxLabels),
\* with the last bucket
StrideLabels(n) ==
    {i \in 0..(n - 1) : i % ((n + maxLabels - 1) \div maxLabels) = 0} \cup {n - 1}

\* C25: in every drawn chart of n >= 1 buckets the labelled buckets are those
\* at the uniform stride ceil(n / 10) plus the last bucket, the last bucket is
\* labelled, and at most maxLabels buckets are labelled
C25_LabelThinning ==
    \A c \in Charts :
        BarsDrawn(c) =>
            /\ DOMAIN canvas[c].labels = StrideLabels(Len(view[1].groupedDates))
            /\ (Len(view[1].groupedDates) - 1) \in DOMAIN canvas[c].labels
            /\ Cardinality(DOMAIN canvas[c].labels) <= maxLabels

\* C30: in every drawn chart every hit rectangle lies horizontally inside the
\* plot area: its left edge is not left of the left padding and its right
\* edge is not right of left padding + plot width
C30_BarsInsidePlot ==
    \A c \in Charts :
        BarsDrawn(c) =>
            \A k \in 1..Len(canvas[c].owHit) :
                /\ ~Less(canvas[c].owHit[k].x, <<padding.l, 1>>)
                /\ ~Less(<<padding.l + plotWidth(layout.box[c]), 1>>,
                         Plus(canvas[c].owHit[k].x, canvas[c].owHit[k].w))

-----------------------------------------------------------------------------
(* The exported image contains what is drawn on it (SpecExport)             *)

\* C26: everything exportPng draws lies inside the output image: each chart
\* surface is drawn at a horizontal offset >= 0 with offset + width <= the
\* output width, and at a vertical offset with offset + height <= the output
\* height
C26_ExportInside ==
    exported # <<>> =>
        \A c \in Charts :
            /\ exported[1].copied[c].x >= 0
            /\ exported[1].copied[c].x + exported[1].sources[c].width <= exported[1].outW
            /\ exported[1].copied[c].y + exported[1].sources[c].height <= exported[1].outH

-----------------------------------------------------------------------------
(* Page initialisation (SpecBoot): the documents the script block may find  *)

\* every element present, or one of the required elements missing
Presences == {Required} \cup {Required \ {e} : e \in Required}

Documents ==
    {[workbench |-> w, authBar |-> a, globals |-> g, link |-> l, present |-> p, visCard |-> v] :
        w \in BOOLEAN, a \in BOOLEAN, g \in BOOLEAN, l \in {"", "verify"},
        p \in Presences, v \in BOOLEAN}

\* the document is parsed and the script block is about to run
Loading(doc) ==
    [doc |-> doc, pc |-> "loading", authBar |-> "null", modal |-> "", controller |-> FALSE,
     resetHandler |-> FALSE, runHandler |-> FALSE]

InitBoot ==
    /\ tz = 0
    /\ csvText = ""
    /\ state = DefaultState
    /\ data = NoData
    /\ stats = <<>>
    /\ inflight = FALSE
    /\ raf = FALSE
    /\ view = <<>>
    /\ layout = PlainLayout
    /\ frames = 0
    /\ requested = 0
    /\ timers = <<>>
    /\ faded = FALSE
    /\ canvas = [c \in Charts |-> BlankCanvas]
    /\ surface = [c \in Charts |-> CanvasDefault]
    /\ exported = <<>>
    /\ table = <<>>
    /\ merges = NoMerges
    /\ boot \in {Loading(doc) : doc \in Documents}

\* the workbench script block runs; creating the chart controller ends in
\* the requestRender() calls of its construction
Bootstrap ==
    /\ boot.pc = "loading"
    /\ boot' = bootstrap(boot.doc)
    /\ IF bootstrap(boot.doc).controller
       THEN raf' = TRUE /\ frames' = 1 /\ requested' = 2
       ELSE UNCHANGED <<raf, frames, requested>>
    /\ UNCHANGED <<tz, csvText, state, data, stats, inflight, view, timers, faded, canvas,
                   layout, surface, exported, table, merges>>

NextBoot == Bootstrap

SpecBoot == InitBoot /\ [][NextBoot]_vars

\* C27: when every required workbench element is present in the document,
\* the .aw-workbench container included, the script block runs to its end
\* without throwing: the Reset and Run-merge click handlers are registered
\* and the chart controller is created
C27_InitCompletes ==
    (/\ boot.pc # "loading"
     /\ boot.doc.workbench
     /\ boot.doc.present = Required
     /\ boot.doc.visCard)
        => (/\ boot.pc = "done"
            /\ boot.resetHandler
            /\ boot.runHandler
            /\ boot.controller)

-----------------------------------------------------------------------------
(* Overlapping merges (SpecMerge): the Run button is pressed again while a  *)
(* request is awaiting its response                                         *)

MaxMerges == 2

\* runMerge up to its await, whether or not an earlier call is still waiting:
\* the link, the preview, the statistics and the charts are cleared, the
\* status shows this call's progress, and the request is sent
RunMergeStart ==
    /\ merges.started < MaxMerges
    /\ \E text \in UiDatasets :
          merges' = [started |-> merges.started + 1,
                     pending |-> merges.pending \cup {[id |-> merges.started + 1, text |-> text]},
                     texts |-> Append(merges.texts, text),
                     overlap |-> merges.overlap \/ merges.pending # {},
                     failed |-> merges.failed,
                     previewOf |-> 0, linkOf |-> 0, panelOf |-> 0,
                     statusOf |-> merges.started + 1]
    /\ inflight' = TRUE
    /\ stats' = <<>>
    /\ canvas' = [c \in Charts |-> clearVisuals(canvas[c])]
    /\ UNCHANGED <<tz, csvText, state, data, raf, view, frames, requested, timers, faded, layout,
                   surface, exported, table, boot>>

\* the continuation of call r when its response arrives: without a CSV only
\* the status is written; otherwise the preview, the link, the statistics
\* and charts (buildStatsAndChartsFromCsv) and the status
RunMergeResume(r) ==
    /\ r \in merges.pending
    /\ csvText' = r.text
    /\ inflight' = (merges.pending # {r})
    /\ IF Len(r.text) = 0
       THEN /\ merges' = [merges EXCEPT !.pending = @ \ {r}, !.statusOf = r.id]
            /\ UNCHANGED <<state, data, stats, raf, frames, requested>>
       ELSE /\ merges' = [merges EXCEPT !.pending = @ \ {r}, !.statusOf = r.id,
                                        !.previewOf = r.id, !.linkOf = r.id, !.panelOf = r.id]
            /\ showBuilt(buildStatsAndChartsFromCsv(r.text))
            /\ scheduleRender
    /\ UNCHANGED <<tz, view, timers, faded, canvas, layout, surface, exported, table, boot>>

\* the continuation of call r when the backend answers with an error or the
\* request fails: the status alone is written
RunMergeCatch(r) ==
    /\ r \in merges.pending
    /\ merges' = [merges EXCEPT !.pending = @ \ {r}, !.failed = @ \cup {r.id},
                                !.statusOf = r.id]
    /\ inflight' = (merges.pending # {r})
    /\ UNCHANGED <<tz, csvText, state, data, stats, raf, view, frames, requested, timers,
                   faded, canvas, layout, surface, exported, table, boot>>

NextMerge ==
    \/ RunMergeStart
    \/ \E r \in merges.pending : RunMergeResume(r)
    \/ \E r \in merges.pending : RunMergeCatch(r)
    \/ Render
    \/ DrawTimeout

SpecMerge == InitUI /\ [][NextMerge]_vars

\* two calls overlapped, both got a response with a CSV, and both responses
\* have been processed
BothProcessed ==
    /\ merges.started = 2
    /\ merges.overlap
    /\ merges.pending = {}
    /\ merges.failed = {}
    /\ \A i \in 1..2 : Len(merges.texts[i]) > 0

\* C28: when runMerge was started a second time before the first response
\* arrived, then after both responses are processed the charts, the quick
\* statistics, the preview, the download link and the status belong to the
\* later-started call, whatever the order of the responses
C28_LaterRequestWins ==
    BothProcessed =>
        /\ merges.previewOf = 2
        /\ merges.linkOf = 2
        /\ merges.panelOf = 2
        /\ merges.statusOf = 2
        /\ stats = <<buildStatsAndChartsFromCsv(merges.texts[2]).stats>>
        /\ data = buildStatsAndChartsFromCsv(merges.texts[2]).next

-----------------------------------------------------------------------------
(* Latest state wins (SpecLatest): control changes and dataset loads only   *)

NextLatest ==
    \/ \E r \in UiRanges : SetRange(r)
    \/ \E g \in UiGroups : SetGroup(g)
    \/ SetCumulative
    \/ ApplyCustom
    \/ RunMerge
    \/ MergeResponse
    \/ Render
    \/ DrawTimeout

SpecLatest == InitUI /\ [][NextLatest]_vars

\* a canvas shows a drawing: the same stored hit regions, and either exactly
\* the bars, labels and legend of the drawing or, for a drawing without
\* bars, no bars
Shows(cv, drawn) ==
    /\ cv.owHit = drawn.owHit
    /\ IF drawn.pixels = "bars" THEN cv = drawn ELSE cv.pixels # "bars"

\* C29: once the response to the last merge has delivered its dataset and
\* every scheduled animation-frame callback and deferred draw has run, the
\* three canvases and their stored hit regions show what drawStackedBars
\* gives for the series computed from the final ChartState and the final
\* dataset
C29_LatestStateWins ==
    (Settled /\ Len(csvText) > 0) =>
        \A c \in Charts : Shows(canvas[c], drawAll(renderSeries, data, layout)[c])

=============================================================================
